---- MODULE Spec2Model ----
(***************************************************************************)
(* A model of the Yalidine SDK's request pipeline:                         *)
(*   - HTTPClient (src/src/http/client.ts): the retry loop of request(),   *)
(*     the quota tracker fed from response headers, getRetryAfter,         *)
(*     canMakeRequest;                                                     *)
(*   - Yalidine (src/src/yalidine.ts): configuration validation and the    *)
(*     defaults applied by the constructor; init() with loadCachedData,    *)
(*     testConnection() and destroy();                                     *)
(*   - YalidineMemoryDatabase (src/src/database/memory.ts): the Map of     *)
(*     entries with their expiry, its methods and the sweep timer.         *)
(*                                                                         *)
(* JavaScript values are modelled as tagged records so that `undefined`,   *)
(* NaN, numbers and strings can share a field: Undefined, NaN, Num(n),     *)
(* Str(s), Bool(b).  Header values are sequences of one-character strings  *)
(* so that Number.parseInt is computed, not assumed.                       *)
(***************************************************************************)
EXTENDS Integers, Sequences, FiniteSets, TLC

VARIABLES
    config,       \* HTTPClient.config (the fields request() reads)
    quotaStatus,  \* HTTPClient.quotaStatus
    now,          \* the wall clock read by `new Date()`
    pc,           \* position of the one request() call: idle, fetching, reading, sleeping, done
    attempt,      \* the loop variable of request()
    maxRetries,   \* the local `maxRetries` of request()
    lastError,    \* the local `lastError` of request()
    resp,         \* the Response the current attempt received, NoResponse before
    body,         \* the text of that response once response.text() resolved
    result,       \* how request() settled: resolved value or rejection
    fetchCount,   \* calls of fetch() made by the current request()
    sleeps,       \* delays passed to sleep() by the current request(), in order
    received,     \* responses fetch() resolved with during the current request()
    timer,        \* the timeout timer of the current attempt: none, armed, cleared, fired
    caughtError,  \* the `error` the catch block of request() received last
    suspended,    \* the locals of a second request() call waiting at one of its awaits
    cfgIn,        \* the YalidineConfig handed to `new Yalidine(config)`
    session,      \* the outcome of `new Yalidine(config)`
    database,     \* the cache store: the session's `database`, or a store used on its own
    cache,        \* YalidineMemoryDatabase.cache
    cleanupInterval, \* YalidineMemoryDatabase.cleanupInterval
    call,         \* the operation of the session or of the store called last
    calls,        \* the names of the session's operations called so far, in order
    lastWrite     \* for each key, the last call that wrote or removed it

httpVars == <<config, quotaStatus, now>>
reqVars ==
    <<pc, attempt, maxRetries, lastError, resp, body, result, fetchCount, sleeps, received,
      timer, caughtError, suspended>>
storeVars == <<database, cache, cleanupInterval, lastWrite>>
sessionVars ==
    <<cfgIn, session, database, cache, cleanupInterval, call, calls, lastWrite>>
vars == <<config, quotaStatus, now, pc, attempt, maxRetries, lastError, resp, body,
          result, fetchCount, sleeps, received, timer, caughtError, suspended, cfgIn,
          session, database, cache, cleanupInterval, call, calls, lastWrite>>

----------------------------------------------------------------------------
(* Bounds of the model *)

\* largest retry count a caller passes explicitly
MaxRetries == 2
\* the clock runs from 0 to MaxTime
MaxTime == 1
\* the number of operations a caller calls on one session
MaxCalls == 3
\* the half seconds the store's clock advances one by one after a sweep period began
MaxHalfSeconds == 3
\* the sweep periods the store's clock runs through
MaxSweeps == 2
\* the retry count of the engine whose backoff reaches the cap
MaxBackoffRetries == 6

----------------------------------------------------------------------------
(* JavaScript values *)

Undefined == [t |-> "undefined"]
NaN == [t |-> "NaN"]
Null == [t |-> "null"]
Num(n) == [t |-> "number", v |-> n]
Str(s) == [t |-> "string", v |-> s]
Bool(b) == [t |-> "boolean", v |-> b]

IsNum(x) == x.t = "number"

\* ToBoolean, as `!x`, `x && y`, `x || y` and `x ? a : b` apply it
Truthy(x) ==
    CASE x.t = "undefined" -> FALSE
      [] x.t = "null" -> FALSE
      [] x.t = "NaN" -> FALSE
      [] x.t = "number" -> x.v # 0
      [] x.t = "string" -> x.v # ""
      [] x.t = "boolean" -> x.v
      [] OTHER -> TRUE

\* x || y
Or(x, y) == IF Truthy(x) THEN x ELSE y

\* x ?? y
Coalesce(x, y) == IF x.t \in {"undefined", "null"} THEN y ELSE x

\* x > n, x <= n, x < n for a number n: false when x is undefined or NaN
JsGt(x, n) == IsNum(x) /\ x.v > n
JsLe(x, n) == IsNum(x) /\ x.v <= n
JsLt(x, n) == IsNum(x) /\ x.v < n

Min(a, b) == IF a < b THEN a ELSE b

RECURSIVE Pow2(_)
Pow2(k) == IF k = 0 THEN 1 ELSE 2 * Pow2(k - 1)

----------------------------------------------------------------------------
(* Number.parseInt(text, 10) on a sequence of characters *)

Digits == <<"0", "1", "2", "3", "4", "5", "6", "7", "8", "9">>
IsDigit(c) == \E i \in 1..10 : Digits[i] = c
DigitVal(c) == (CHOOSE i \in 1..10 : Digits[i] = c) - 1

RECURSIVE SkipSpace(_)
SkipSpace(s) == IF s # <<>> /\ Head(s) = " " THEN SkipSpace(Tail(s)) ELSE s

RECURSIVE ParseDigits(_, _, _)
ParseDigits(s, acc, seen) ==
    IF s # <<>> /\ IsDigit(Head(s))
    THEN ParseDigits(Tail(s), acc * 10 + DigitVal(Head(s)), TRUE)
    ELSE IF seen THEN Num(acc) ELSE NaN

Negate(x) == IF IsNum(x) THEN Num(0 - x.v) ELSE x

ParseInt(s) ==
    LET u == SkipSpace(s)
    IN  IF u # <<>> /\ Head(u) = "-" THEN Negate(ParseDigits(Tail(u), 0, FALSE))
        ELSE IF u # <<>> /\ Head(u) = "+" THEN ParseDigits(Tail(u), 0, FALSE)
        ELSE ParseDigits(u, 0, FALSE)

----------------------------------------------------------------------------
(* Responses *)

\* headers.get(name): null when the header is absent, else its text
Absent == [present |-> FALSE, text |-> <<>>]
Hdr(s) == [present |-> TRUE, text |-> s]

\* a header value used as a condition: null and "" are falsy
HdrTruthy(h) == h.present /\ h.text # <<>>

\* the header names request() reads
QuotaHeader ==
    [secondQuotaLeft |-> "x-second-quota-left",
     minuteQuotaLeft |-> "x-minute-quota-left",
     hourQuotaLeft   |-> "x-hour-quota-left",
     dayQuotaLeft    |-> "x-day-quota-left"]

\* the header names the README documents
DocumentedHeader ==
    [secondQuotaLeft |-> "second-quota-left",
     minuteQuotaLeft |-> "minute-quota-left",
     hourQuotaLeft   |-> "hour-quota-left",
     dayQuotaLeft    |-> "day-quota-left"]

QuotaDims == {"secondQuotaLeft", "minuteQuotaLeft", "hourQuotaLeft", "dayQuotaLeft"}

HeaderNames ==
    {QuotaHeader[d] : d \in QuotaDims} \cup {DocumentedHeader[d] : d \in QuotaDims}
        \cup {"retry-after"}

\* the quota header texts a response may carry: a positive count, zero, not a number
QuotaTexts == {<<"4">>, <<"0">>, <<"x">>}
QuotaHeaderValues == {Absent} \cup {Hdr(s) : s \in QuotaTexts}

\* the retry-after texts a 429 response may carry: seconds, an empty value, an HTTP date
RetryAfterTexts == {<<"3", "0">>, <<>>, <<"x">>}
RetryAfterValues == {Absent} \cup {Hdr(s) : s \in RetryAfterTexts}

Statuses == {200, 304, 429, 500}

\* response.ok
Ok(status) == status >= 200 /\ status <= 299

\* A response: its status and its headers.  `names` is the naming of the quota
\* headers the remote service uses (QuotaHeader or DocumentedHeader), q the value of
\* each quota header and ra the value of retry-after.
Response(s, names, q, ra) ==
    [status |-> s,
     hdr |-> [n \in HeaderNames |->
                IF n = "retry-after" THEN ra
                ELSE IF \E d \in QuotaDims : names[d] = n
                     THEN q[CHOOSE d \in QuotaDims : names[d] = n]
                     ELSE Absent]]

\* Responses for the retry loop: every status, the quota headers all absent or all
\* present, every retry-after value on a 429.
EngineResponses ==
    { r \in { Response(s, QuotaHeader, [d \in QuotaDims |-> v], ra) :
                s \in Statuses, v \in {Absent, Hdr(<<"4">>)}, ra \in RetryAfterValues } :
        r.hdr["retry-after"].present => r.status = 429 }

\* Responses for the quota tracker: every status, every combination of quota header
\* values under the names the client reads, every combination of present and absent
\* headers under the documented names.
QuotaResponses ==
    { Response(s, QuotaHeader, q, Absent) :
        s \in Statuses, q \in [QuotaDims -> QuotaHeaderValues] }
    \cup
    { Response(s, DocumentedHeader, q, Absent) :
        s \in Statuses, q \in [QuotaDims -> {Absent, Hdr(<<"4">>)}] }

NoResponse == [status |-> 0]
Unread == "<unread>"

\* response bodies: empty, a JSON object, not JSON
Bodies == {"", "{\"id\":\"abc\"}", "<html>"}

\* JSON.parse on the bodies above
JSONParse(text) ==
    CASE text = "{\"id\":\"abc\"}" -> [ok |-> TRUE, value |-> [t |-> "object", id |-> "abc"]]
      [] text = "null" -> [ok |-> TRUE, value |-> Null]
      [] OTHER -> [ok |-> FALSE, value |-> Undefined]

----------------------------------------------------------------------------
(* Errors *)

NoError == [kind |-> "none"]

YalidineError(message, code) ==
    [kind |-> "YalidineError", message |-> message, code |-> code]
YalidineAPIError(message, status, details) ==
    [kind |-> "YalidineAPIError", message |-> message, status |-> status, details |-> details]
YalidineRateLimitError(message, retryAfter) ==
    [kind |-> "YalidineRateLimitError", message |-> message, retryAfter |-> retryAfter]
YalidineNetworkError(message, originalError) ==
    [kind |-> "YalidineNetworkError", message |-> message, originalError |-> originalError]

\* what fetch() and response.text() reject with: an error that is no SDK error
RawError(class, name, mentionsFetch) ==
    [kind |-> "raw", class |-> class, name |-> name, mentionsFetch |-> mentionsFetch]

\* controller.abort() makes fetch reject with a DOMException named AbortError
AbortError == RawError("DOMException", "AbortError", FALSE)

\* network failures: "fetch failed" (Node), "Failed to fetch" (Chrome) mention fetch;
\* "Load failed" (Safari), "Network request failed" (React Native), "terminated" do not
NetworkFailures ==
    {RawError("TypeError", "TypeError", TRUE), RawError("TypeError", "TypeError", FALSE)}

----------------------------------------------------------------------------
(* HTTPClient *)

\* the HTTPClientConfig the constructor stores
HTTPClientConfig(baseURL, apiId, apiToken, timeout, retries, debug) ==
    [baseURL |-> baseURL, apiId |-> apiId, apiToken |-> apiToken,
     timeout |-> timeout, retries |-> retries, debug |-> debug]

\* no HTTPClient has been constructed
NoConfig == [t |-> "undefined"]

\* no Yalidine has been constructed
NoSession == [status |-> "none"]

DefaultRetries == 3
DefaultRetryAfter == 60
BackoffBase == 1000
BackoffCap == 10000

\* the constructor's seed of the quota tracker
InitialQuota ==
    [secondQuotaLeft |-> Num(5), minuteQuotaLeft |-> Num(50),
     hourQuotaLeft |-> Num(1000), dayQuotaLeft |-> Num(10000), lastUpdate |-> 0]

\* obj[name] of JavaScript: undefined when obj has no such property
Property(obj, name) == IF name \in DOMAIN obj THEN obj[name] ELSE Undefined

\* the getHeader closure of updateQuotaStatus
getHeader(qs, headers, name) ==
    IF HdrTruthy(headers[name]) THEN ParseInt(headers[name].text) ELSE Property(qs, name)

updateQuotaStatus(qs, headers, time) ==
    [secondQuotaLeft |-> getHeader(qs, headers, "x-second-quota-left"),
     minuteQuotaLeft |-> getHeader(qs, headers, "x-minute-quota-left"),
     hourQuotaLeft   |-> getHeader(qs, headers, "x-hour-quota-left"),
     dayQuotaLeft    |-> getHeader(qs, headers, "x-day-quota-left"),
     lastUpdate      |-> time]

getRetryAfter(headers) ==
    IF HdrTruthy(headers["retry-after"])
    THEN ParseInt(headers["retry-after"].text)
    ELSE Num(DefaultRetryAfter)

\* a check that leaves the per-day counter out
canMakeRequestWithoutDay ==
    /\ JsGt(quotaStatus.secondQuotaLeft, 0)
    /\ JsGt(quotaStatus.minuteQuotaLeft, 0)
    /\ JsGt(quotaStatus.hourQuotaLeft, 0)

canMakeRequest ==
    /\ JsGt(quotaStatus.secondQuotaLeft, 0)
    /\ JsGt(quotaStatus.minuteQuotaLeft, 0)
    /\ JsGt(quotaStatus.hourQuotaLeft, 0)
    /\ JsGt(quotaStatus.dayQuotaLeft, 0)

getQuotaStatus == quotaStatus

\* a backoff without the cap
BackoffDelayUncapped(k) == BackoffBase * Pow2(k)

\* the delay of the backoff sleep after attempt k failed
BackoffDelay(k) == Min(BackoffBase * Pow2(k), BackoffCap)

\* a loop exit that throws the fallback whatever was captured
FinalErrorGeneric(le) == YalidineNetworkError("Request failed after all retries", NoError)

\* `throw lastError || new YalidineNetworkError(...)` after the loop
FinalError(le) ==
    IF le = NoError THEN YalidineNetworkError("Request failed after all retries", NoError)
    ELSE le

Resolved(data, status, headers, quota) ==
    [state |-> "resolved", data |-> data, status |-> status, headers |-> headers,
     quota |-> quota]
Rejected(error) == [state |-> "rejected", error |-> error]
Pending == [state |-> "pending"]

\* no second request() call is in flight
NoSuspended == [pc |-> "none"]

----------------------------------------------------------------------------
(* HTTPClient.request *)

\* options.retries of a call
RetryOptions == {Undefined} \cup {Num(n) : n \in (-1)..MaxRetries}

\* const maxRetries = options.retries ?? this.config.retries ?? 3
EffectiveMaxRetries(retries) ==
    Coalesce(retries, Coalesce(config.retries, Num(DefaultRetries))).v

ErrorName(e) == IF e.kind = "raw" THEN e.name ELSE e.kind
IsTypeError(e) == e.kind = "raw" /\ e.class = "TypeError"
MentionsFetch(e) == e.kind = "raw" /\ e.mentionsFetch

\* a catch block that rethrows API errors only
RethrownOnlyAPIError(error) == error.kind = "YalidineAPIError"

\* a catch block that rethrows rate-limit errors only
RethrownOnlyRateLimitError(error) == error.kind = "YalidineRateLimitError"

\* error instanceof YalidineAPIError || error instanceof YalidineRateLimitError
Rethrown(error) == error.kind \in {"YalidineAPIError", "YalidineRateLimitError"}

\* the catch block's rewrite of lastError
Classify(error) ==
    IF ErrorName(error) = "AbortError" THEN YalidineNetworkError("Request timeout", error)
    ELSE IF IsTypeError(error) /\ MentionsFetch(error)
         THEN YalidineNetworkError("Network error", error)
         ELSE error

\* the loop's exit on the final attempt
IsFinalAttempt(k, m) == k = m

\* the catch block of request(), entered with `error` during attempt `attempt`
Catch(error) ==
    IF Rethrown(error)
    THEN /\ caughtError' = error
         /\ lastError' = error
         /\ pc' = "done"
         /\ result' = Rejected(error)
         /\ sleeps' = sleeps
    ELSE /\ caughtError' = error
         /\ lastError' = Classify(error)
         /\ IF IsFinalAttempt(attempt, maxRetries)
            THEN /\ pc' = "done"
                 /\ result' = Rejected(FinalError(Classify(error)))
                 /\ sleeps' = sleeps
            ELSE /\ pc' = "sleeping"
                 /\ result' = result
                 /\ sleeps' = Append(sleeps, BackoffDelay(attempt))

\* request(endpoint, options) up to its first await, as it acts on its own locals
StartRequest(retries) ==
    /\ config # NoConfig
    /\ pc \in {"idle", "done"}
    /\ maxRetries' = EffectiveMaxRetries(retries)
    /\ attempt' = 0
    /\ lastError' = NoError
    /\ resp' = NoResponse
    /\ body' = Unread
    /\ sleeps' = <<>>
    /\ received' = 0
    /\ caughtError' = NoError
    /\ suspended' = suspended
    /\ IF 0 <= EffectiveMaxRetries(retries)
       THEN /\ pc' = "fetching"
            /\ fetchCount' = 1
            /\ timer' = "armed"
            /\ result' = Pending
       ELSE /\ pc' = "done"
            /\ fetchCount' = 0
            /\ timer' = "none"
            /\ result' = Rejected(FinalError(NoError))

\* a request() that consults the quota tracker and rejects when it says no
requestWhenQuotaAllows(retries) ==
    /\ IF canMakeRequest
       THEN StartRequest(retries)
       ELSE /\ config # NoConfig
            /\ pc \in {"idle", "done"}
            /\ pc' = "done"
            /\ fetchCount' = 0
            /\ result' = Rejected(YalidineRateLimitError("Rate limit exceeded",
                                                         Num(DefaultRetryAfter)))
            /\ UNCHANGED <<attempt, maxRetries, lastError, resp, body, sleeps, received,
                           timer, caughtError, suspended>>
    /\ UNCHANGED <<httpVars, sessionVars>>

\* a call of request(endpoint, options) by a user of the HTTPClient
request(retries) ==
    /\ StartRequest(retries)
    /\ UNCHANGED <<httpVars, sessionVars>>

\* fetch() rejects: no response was received
FetchRejects(error) ==
    /\ pc = "fetching"
    /\ Catch(error)
    /\ UNCHANGED <<attempt, maxRetries, resp, body, fetchCount, received, timer, suspended,
                   httpVars, sessionVars>>

\* a timeout whose abort reaches the fetch() of the other call too
TimeoutFiresAbortsAll ==
    /\ pc = "fetching"
    /\ timer = "armed"
    /\ timer' = "fired"
    /\ Catch(AbortError)
    /\ suspended' = IF suspended # NoSuspended /\ suspended.pc = "fetching"
                    THEN [suspended EXCEPT
                             !.pc = "done", !.timer = "fired", !.caughtError = AbortError,
                             !.lastError = Classify(AbortError),
                             !.result = Rejected(Classify(AbortError))]
                    ELSE suspended
    /\ UNCHANGED <<attempt, maxRetries, resp, body, fetchCount, received,
                   httpVars, sessionVars>>

\* the timeout timer fires while fetch() is pending: controller.abort() makes the
\* fetch() of this attempt reject
TimeoutFires ==
    /\ pc = "fetching"
    /\ timer = "armed"
    /\ timer' = "fired"
    /\ Catch(AbortError)
    /\ UNCHANGED <<attempt, maxRetries, resp, body, fetchCount, received, suspended,
                   httpVars, sessionVars>>

\* a timer nothing cleared fires after its attempt ended: controller.abort() on a
\* fetch() that has already settled changes nothing
TimeoutFiresLate ==
    /\ pc \in {"sleeping", "done"}
    /\ timer = "armed"
    /\ timer' = "fired"
    /\ UNCHANGED <<pc, attempt, maxRetries, lastError, resp, body, result, fetchCount, sleeps,
                   received, caughtError, suspended, httpVars, sessionVars>>

\* a fetch() continuation that updates the quota tracker for successful responses only
FetchResolvesQuotaOnSuccess(r) ==
    /\ pc = "fetching"
    /\ resp' = r
    /\ quotaStatus' = IF Ok(r.status) THEN updateQuotaStatus(quotaStatus, r.hdr, now)
                                      ELSE quotaStatus
    /\ pc' = "reading"
    /\ received' = received + 1
    /\ timer' = "cleared"
    /\ UNCHANGED <<config, now, attempt, maxRetries, lastError, body, result, fetchCount,
                   sleeps, caughtError, suspended, sessionVars>>

\* fetch() resolves with a response: clearTimeout, updateQuotaStatus, then text() is awaited
FetchResolves(r) ==
    /\ pc = "fetching"
    /\ resp' = r
    /\ quotaStatus' = updateQuotaStatus(quotaStatus, r.hdr, now)
    /\ pc' = "reading"
    /\ received' = received + 1
    /\ timer' = "cleared"
    /\ UNCHANGED <<config, now, attempt, maxRetries, lastError, body, result, fetchCount,
                   sleeps, caughtError, suspended, sessionVars>>

\* response.text() rejects: the connection broke while the body was read
TextRejects(error) ==
    /\ pc = "reading"
    /\ Catch(error)
    /\ UNCHANGED <<attempt, maxRetries, resp, body, fetchCount, received, timer, suspended,
                   httpVars, sessionVars>>

\* a body parse that hands the empty text to JSON.parse too
ParseBodyAlways(text) == JSONParse(text)

\* data = responseText ? JSON.parse(responseText) : null
ParseBody(text) == IF text = "" THEN [ok |-> TRUE, value |-> Null] ELSE JSONParse(text)

\* what the try block does with a response whose text was read: the error it throws,
\* or NoError when it returns
Thrown(r, text) ==
    IF ~ParseBody(text).ok
    THEN YalidineAPIError("Invalid JSON response from API", r.status,
                          [t |-> "object", responseText |-> text, parseError |-> "SyntaxError"])
    ELSE IF ~Ok(r.status)
         THEN IF r.status = 429
              THEN YalidineRateLimitError("Rate limit exceeded", getRetryAfter(r.hdr))
              ELSE YalidineAPIError("API request failed", r.status, ParseBody(text).value)
         ELSE NoError

\* response.text() resolves: parse, interpret the status, return or throw
TextResolves(text) ==
    /\ pc = "reading"
    /\ body' = text
    /\ IF Thrown(resp, text) = NoError
       THEN /\ pc' = "done"
            /\ result' = Resolved(ParseBody(text).value, resp.status, resp.hdr, quotaStatus)
            /\ UNCHANGED <<lastError, sleeps, caughtError>>
       ELSE Catch(Thrown(resp, text))
    /\ UNCHANGED <<attempt, maxRetries, resp, fetchCount, received, timer, suspended,
                   httpVars, sessionVars>>

\* a backoff sleep after which the quota tracker is back at its seed
SleepDoneResetsQuota ==
    /\ pc = "sleeping"
    /\ attempt' = attempt + 1
    /\ resp' = NoResponse
    /\ body' = Unread
    /\ fetchCount' = fetchCount + 1
    /\ pc' = "fetching"
    /\ timer' = "armed"
    /\ quotaStatus' = [InitialQuota EXCEPT !.lastUpdate = now]
    /\ UNCHANGED <<config, now, maxRetries, lastError, result, sleeps, received, caughtError,
                   suspended, sessionVars>>

\* the backoff sleep ends: attempt++, the next fetch() is issued
SleepDone ==
    /\ pc = "sleeping"
    /\ attempt' = attempt + 1
    /\ resp' = NoResponse
    /\ body' = Unread
    /\ fetchCount' = fetchCount + 1
    /\ pc' = "fetching"
    /\ timer' = "armed"
    /\ UNCHANGED <<maxRetries, lastError, result, sleeps, received, caughtError, suspended,
                   httpVars, sessionVars>>

\* the locals of the request() call in focus, as they wait while the other call runs;
\* `id` tells the two calls apart
Suspended(id) ==
    [id |-> id, pc |-> pc, attempt |-> attempt, maxRetries |-> maxRetries,
     lastError |-> lastError, resp |-> resp, body |-> body, result |-> result,
     fetchCount |-> fetchCount, sleeps |-> sleeps, received |-> received,
     timer |-> timer, caughtError |-> caughtError]

\* a caller that has not called request() yet
NotCalled(id) ==
    [id |-> id, pc |-> "idle", attempt |-> 0, maxRetries |-> 0, lastError |-> NoError,
     resp |-> NoResponse, body |-> Unread, result |-> Pending, fetchCount |-> 0,
     sleeps |-> <<>>, received |-> 0, timer |-> "none", caughtError |-> NoError]

\* the id of the request() call in focus
Running == 3 - suspended.id

\* the event loop turns from the call in focus, which waits at an await of request() or
\* has not begun, to the other call: the next continuation to run is one of that call
Yield ==
    /\ suspended # NoSuspended
    /\ suspended' = Suspended(Running)
    /\ pc' = suspended.pc
    /\ attempt' = suspended.attempt
    /\ maxRetries' = suspended.maxRetries
    /\ lastError' = suspended.lastError
    /\ resp' = suspended.resp
    /\ body' = suspended.body
    /\ result' = suspended.result
    /\ fetchCount' = suspended.fetchCount
    /\ sleeps' = suspended.sleeps
    /\ received' = suspended.received
    /\ timer' = suspended.timer
    /\ caughtError' = suspended.caughtError
    /\ UNCHANGED <<httpVars, sessionVars>>

\* a call of getQuotaStatus() by a user of the HTTPClient: a copy of the tracker
CallGetQuotaStatus ==
    /\ config # NoConfig
    /\ call' = [name |-> "getQuotaStatus", returned |-> getQuotaStatus]
    /\ UNCHANGED <<httpVars, reqVars, cfgIn, session, storeVars, calls>>

\* a call of canMakeRequest() by a user of the HTTPClient
CallCanMakeRequest ==
    /\ config # NoConfig
    /\ call' = [name |-> "canMakeRequest", returned |-> canMakeRequest]
    /\ UNCHANGED <<httpVars, reqVars, cfgIn, session, storeVars, calls>>

\* time passes
Tick ==
    /\ now < MaxTime
    /\ now' = now + 1
    /\ UNCHANGED <<config, quotaStatus, reqVars, sessionVars>>

----------------------------------------------------------------------------
(* YalidineMemoryDatabase *)

MsPerSecond == 1000
\* the period of the sweep timer, in ms
SweepInterval == 5 * 60 * 1000

\* the keys of the store: `${agent}:wilayas` for the two agents
Keys == {"yalidine:wilayas", "goupex:wilayas"}

\* no store exists
NoDatabase == [t |-> "undefined", kind |-> "none"]
\* new YalidineMemoryDatabase()
MemoryDatabase == [t |-> "object", kind |-> "memory"]
\* a store the caller supplies; `teardown` tells whether it has a destroy method
CustomDatabase(teardown) ==
    [t |-> "object", kind |-> "custom", teardown |-> teardown]

\* a CacheEntry; expiry is Undefined when the entry has none
CacheEntry(value, expiry) == [t |-> "object", value |-> value, expiry |-> expiry]

\* new Map()
EmptyCache == [k \in Keys |-> Undefined]

\* the handle setInterval returns: the timer fires next at `due`
Interval(due) == [t |-> "timer", due |-> due]

\* nothing was written yet
NoWrite == [op |-> "none"]
NoCall == [name |-> "none"]

\* a test that takes the instant of the expiry for expired
ExpiredAtExpiry(entry, time) == Truthy(entry.expiry) /\ time >= entry.expiry.v

\* entry.expiry && Date.now() > entry.expiry
Expired(entry, time) == Truthy(entry.expiry) /\ time > entry.expiry.v

\* what get(key) returns at `time`
getValue(c, key, time) ==
    IF ~Truthy(c[key]) THEN Null
    ELSE IF Expired(c[key], time) THEN Null
    ELSE c[key].value

\* what has(key) returns at `time`
hasValue(c, key, time) ==
    IF ~Truthy(c[key]) THEN FALSE
    ELSE IF Expired(c[key], time) THEN FALSE
    ELSE TRUE

\* a read that leaves an expired entry in the Map
EvictNothing(c, key, time) == c

\* the Map after get(key) or has(key): an expired entry is deleted by the read
Evict(c, key, time) ==
    IF Truthy(c[key]) /\ Expired(c[key], time) THEN [c EXCEPT ![key] = Undefined] ELSE c

\* the entry set(key, value, ttl) stores at `time`
NewEntry(value, ttl, time) ==
    IF Truthy(ttl) /\ JsGt(ttl, 0)
    THEN CacheEntry(value, Num(time + ttl.v * MsPerSecond))
    ELSE CacheEntry(value, Undefined)

\* a sweep that drops every entry
SweptAll(c, time) == EmptyCache

\* the Map after cleanup() at `time`
Swept(c, time) ==
    [k \in Keys |-> IF Truthy(c[k]) /\ Expired(c[k], time) THEN Undefined ELSE c[k]]

\* the constructor of YalidineMemoryDatabase: an empty Map and the sweep timer
NewMemoryDatabase ==
    /\ database' = MemoryDatabase
    /\ cache' = EmptyCache
    /\ cleanupInterval' = Interval(now + SweepInterval)
    /\ lastWrite' = [k \in Keys |-> NoWrite]

\* async get(key)
get(key) ==
    /\ database = MemoryDatabase
    /\ cache' = Evict(cache, key, now)
    /\ call' = [name |-> "get", key |-> key, at |-> now,
                returned |-> getValue(cache, key, now)]
    /\ UNCHANGED <<database, cleanupInterval, lastWrite, cfgIn, session, calls, httpVars, reqVars>>

\* async has(key)
has(key) ==
    /\ database = MemoryDatabase
    /\ cache' = Evict(cache, key, now)
    /\ call' = [name |-> "has", key |-> key, at |-> now,
                returned |-> hasValue(cache, key, now)]
    /\ UNCHANGED <<database, cleanupInterval, lastWrite, cfgIn, session, calls, httpVars, reqVars>>

\* a set that keeps the expiry of the entry it replaces
StoredKeepsExpiry(key, value, ttl) ==
    /\ cache' = [cache EXCEPT
                    ![key] = IF cache[key] = Undefined THEN NewEntry(value, ttl, now)
                             ELSE CacheEntry(value, cache[key].expiry)]
    /\ lastWrite' = [lastWrite EXCEPT
                        ![key] = [op |-> "set", value |-> value, ttl |-> ttl, at |-> now]]

\* the body of set(key, value, ttl)
Stored(key, value, ttl) ==
    /\ cache' = [cache EXCEPT ![key] = NewEntry(value, ttl, now)]
    /\ lastWrite' = [lastWrite EXCEPT
                        ![key] = [op |-> "set", value |-> value, ttl |-> ttl, at |-> now]]

\* async set(key, value, ttl)
set(key, value, ttl) ==
    /\ database = MemoryDatabase
    /\ Stored(key, value, ttl)
    /\ call' = [name |-> "set", key |-> key, replaced |-> cache[key]]
    /\ UNCHANGED <<database, cleanupInterval, cfgIn, session, calls, httpVars, reqVars>>

\* a delete that empties the Map
DeletedAll(c, key) == EmptyCache

\* the Map after this.cache.delete(key)
Deleted(c, key) == [c EXCEPT ![key] = Undefined]

\* async delete(key)
delete(key) ==
    /\ database = MemoryDatabase
    /\ cache' = Deleted(cache, key)
    /\ lastWrite' = [lastWrite EXCEPT ![key] = [op |-> "delete"]]
    /\ call' = [name |-> "delete", key |-> key]
    /\ UNCHANGED <<database, cleanupInterval, cfgIn, session, calls, httpVars, reqVars>>

\* the body of clear(): this.cache.clear()
Cleared ==
    /\ cache' = EmptyCache
    /\ lastWrite' = [k \in Keys |-> [op |-> "clear", removed |-> cache[k] # Undefined]]

\* async clear()
clear ==
    /\ database = MemoryDatabase
    /\ Cleared
    /\ call' = [name |-> "clear"]
    /\ UNCHANGED <<database, cleanupInterval, cfgIn, session, calls, httpVars, reqVars>>

\* the sweep timer fires: cleanup(), and the timer is due again one period later
cleanup ==
    /\ database = MemoryDatabase
    /\ Truthy(cleanupInterval)
    /\ now >= cleanupInterval.due
    /\ cache' = Swept(cache, now)
    /\ cleanupInterval' = Interval(cleanupInterval.due + SweepInterval)
    /\ call' = [name |-> "cleanup"]
    /\ UNCHANGED <<database, lastWrite, cfgIn, session, calls, httpVars, reqVars>>

\* a destroy that empties the Map and leaves the sweep timer scheduled
MemoryDestroyedKeepsTimer ==
    /\ cleanupInterval' = cleanupInterval
    /\ cache' = EmptyCache
    /\ lastWrite' = [k \in Keys |-> [op |-> "destroy"]]

\* a destroy that empties the Map and starts the sweep timer anew
MemoryDestroyedRestartsTimer ==
    /\ cleanupInterval' = Interval(now + SweepInterval)
    /\ cache' = EmptyCache
    /\ lastWrite' = [k \in Keys |-> [op |-> "destroy"]]

\* YalidineMemoryDatabase.destroy(): clearInterval, cache.clear()
MemoryDestroyed ==
    /\ cleanupInterval' = Null
    /\ cache' = EmptyCache
    /\ lastWrite' = [k \in Keys |-> [op |-> "destroy"]]

YalidineMemoryDatabase_destroy ==
    /\ database = MemoryDatabase
    /\ MemoryDestroyed
    /\ call' = [name |-> "destroy", removed |-> {k \in Keys : cache[k] # Undefined}]
    /\ UNCHANGED <<database, cfgIn, session, calls, httpVars, reqVars>>

----------------------------------------------------------------------------
(* The request engine on its own: `new HTTPClient(config)`, then request() calls *)

EngineConfigs ==
    {HTTPClientConfig(Str("https://api.yalidine.app/v1"), Str("id"), Str("token"),
                      Undefined, r, Undefined) : r \in {Undefined, Num(MaxRetries)}}

Init ==
    /\ config \in EngineConfigs
    /\ quotaStatus = InitialQuota
    /\ now = 0
    /\ pc = "idle"
    /\ attempt = 0
    /\ maxRetries = 0
    /\ lastError = NoError
    /\ resp = NoResponse
    /\ body = Unread
    /\ result = Pending
    /\ fetchCount = 0
    /\ sleeps = <<>>
    /\ received = 0
    /\ timer = "none"
    /\ caughtError = NoError
    /\ suspended = NoSuspended
    /\ cfgIn = NoConfig
    /\ session = NoSession
    /\ database = NoDatabase
    /\ cache = EmptyCache
    /\ cleanupInterval = Null
    /\ call = NoCall
    /\ calls = <<>>
    /\ lastWrite = [k \in Keys |-> NoWrite]

Next ==
    \/ \E retries \in RetryOptions : request(retries)
    \/ \E error \in NetworkFailures : FetchRejects(error)
    \/ TimeoutFires
    \/ TimeoutFiresLate
    \/ \E r \in EngineResponses : FetchResolves(r)
    \/ \E error \in NetworkFailures : TextRejects(error)
    \/ \E text \in Bodies : TextResolves(text)
    \/ SleepDone
    \/ Tick

Spec == Init /\ [][Next]_vars

----------------------------------------------------------------------------
(* The backoff of the retry loop: an engine configured with enough retries for the   *)
(* delays to reach the cap                                                           *)

BackoffConfigs ==
    {HTTPClientConfig(Str("https://api.yalidine.app/v1"), Str("id"), Str("token"),
                      Undefined, Num(MaxBackoffRetries), Undefined)}

\* options.retries of a call: left out, or fewer retries than configured
BackoffRetryOptions == {Undefined} \cup {Num(n) : n \in 0..(MaxBackoffRetries - 1)}

\* what the remote service answers: success, rate limit, server error
BackoffResponses ==
    {Response(s, QuotaHeader, [d \in QuotaDims |-> Hdr(<<"4">>)], Absent) :
        s \in {200, 429, 500}}

InitBackoff ==
    /\ config \in BackoffConfigs
    /\ quotaStatus = InitialQuota
    /\ now = 0
    /\ pc = "idle"
    /\ attempt = 0
    /\ maxRetries = 0
    /\ lastError = NoError
    /\ resp = NoResponse
    /\ body = Unread
    /\ result = Pending
    /\ fetchCount = 0
    /\ sleeps = <<>>
    /\ received = 0
    /\ timer = "none"
    /\ caughtError = NoError
    /\ suspended = NoSuspended
    /\ cfgIn = NoConfig
    /\ session = NoSession
    /\ database = NoDatabase
    /\ cache = EmptyCache
    /\ cleanupInterval = Null
    /\ call = NoCall
    /\ calls = <<>>
    /\ lastWrite = [k \in Keys |-> NoWrite]

NextBackoff ==
    \/ \E retries \in BackoffRetryOptions : request(retries)
    \/ \E error \in NetworkFailures : FetchRejects(error)
    \/ TimeoutFires
    \/ \E r \in BackoffResponses : FetchResolves(r)
    \/ \E error \in NetworkFailures : TextRejects(error)
    \/ \E text \in Bodies : TextResolves(text)
    \/ SleepDone

SpecBackoff == InitBackoff /\ [][NextBackoff]_vars

----------------------------------------------------------------------------
(* Two request() calls in flight on one engine: each runs from await to await, the   *)
(* event loop interleaves their continuations                                        *)

ConcurrentConfigs ==
    {HTTPClientConfig(Str("https://api.yalidine.app/v1"), Str("id"), Str("token"),
                      Undefined, Num(1), Undefined)}

\* what the remote service answers: 200 with the per-second and per-minute headers
\* absent or present together, and likewise the per-hour and per-day headers
ConcurrentResponses ==
    {Response(200, QuotaHeader,
              [d \in QuotaDims |-> IF d \in {"secondQuotaLeft", "minuteQuotaLeft"}
                                   THEN short ELSE long],
              Absent) :
        short \in {Absent, Hdr(<<"4">>), Hdr(<<"0">>)},
        long \in {Absent, Hdr(<<"4">>), Hdr(<<"0">>)}}

ConcurrentFailures == {RawError("TypeError", "TypeError", TRUE)}
ConcurrentBodies == {"{\"id\":\"abc\"}"}

InitConcurrent ==
    /\ config \in ConcurrentConfigs
    /\ quotaStatus = InitialQuota
    /\ now = 0
    /\ pc = "idle"
    /\ attempt = 0
    /\ maxRetries = 0
    /\ lastError = NoError
    /\ resp = NoResponse
    /\ body = Unread
    /\ result = Pending
    /\ fetchCount = 0
    /\ sleeps = <<>>
    /\ received = 0
    /\ timer = "none"
    /\ caughtError = NoError
    /\ suspended = NotCalled(2)
    /\ cfgIn = NoConfig
    /\ session = NoSession
    /\ database = NoDatabase
    /\ cache = EmptyCache
    /\ cleanupInterval = Null
    /\ call = NoCall
    /\ calls = <<>>
    /\ lastWrite = [k \in Keys |-> NoWrite]

NextConcurrent ==
    \/ request(Undefined)
    \/ Yield
    \/ \E error \in ConcurrentFailures : FetchRejects(error)
    \/ TimeoutFires
    \/ \E r \in ConcurrentResponses : FetchResolves(r)
    \/ \E text \in ConcurrentBodies : TextResolves(text)
    \/ SleepDone

SpecConcurrent == InitConcurrent /\ [][NextConcurrent]_vars

----------------------------------------------------------------------------
(* The quota tracker: an engine with retries = 0 receiving responses with every      *)
(* combination of quota headers                                                      *)

QuotaConfigs ==
    {HTTPClientConfig(Str("https://api.yalidine.app/v1"), Str("id"), Str("token"),
                      Undefined, Num(0), Undefined)}

InitQuota ==
    /\ config \in QuotaConfigs
    /\ quotaStatus = InitialQuota
    /\ now = 0
    /\ pc = "idle"
    /\ attempt = 0
    /\ maxRetries = 0
    /\ lastError = NoError
    /\ resp = NoResponse
    /\ body = Unread
    /\ result = Pending
    /\ fetchCount = 0
    /\ sleeps = <<>>
    /\ received = 0
    /\ timer = "none"
    /\ caughtError = NoError
    /\ suspended = NoSuspended
    /\ cfgIn = NoConfig
    /\ session = NoSession
    /\ database = NoDatabase
    /\ cache = EmptyCache
    /\ cleanupInterval = Null
    /\ call = NoCall
    /\ calls = <<>>
    /\ lastWrite = [k \in Keys |-> NoWrite]

NextQuota ==
    \/ request(Undefined)
    \/ \E error \in NetworkFailures : FetchRejects(error)
    \/ TimeoutFires
    \/ \E r \in QuotaResponses : FetchResolves(r)
    \/ \E error \in NetworkFailures : TextRejects(error)
    \/ \E text \in Bodies : TextResolves(text)
    \/ Tick

SpecQuota == InitQuota /\ [][NextQuota]_vars

----------------------------------------------------------------------------
(* A caller that asks the quota tracker before it calls request(): an engine with    *)
(* retries = 0, responses whose quota headers are all positive or all zero           *)

\* what the remote service answers: success or rate limit, with quota left or none
AdvisoryResponses ==
    {Response(s, QuotaHeader, [d \in QuotaDims |-> Hdr(v)], Absent) :
        s \in {200, 429}, v \in {<<"4">>, <<"0">>}}

InitAdvisory ==
    /\ config \in QuotaConfigs
    /\ quotaStatus = InitialQuota
    /\ now = 0
    /\ pc = "idle"
    /\ attempt = 0
    /\ maxRetries = 0
    /\ lastError = NoError
    /\ resp = NoResponse
    /\ body = Unread
    /\ result = Pending
    /\ fetchCount = 0
    /\ sleeps = <<>>
    /\ received = 0
    /\ timer = "none"
    /\ caughtError = NoError
    /\ suspended = NoSuspended
    /\ cfgIn = NoConfig
    /\ session = NoSession
    /\ database = NoDatabase
    /\ cache = EmptyCache
    /\ cleanupInterval = Null
    /\ call = NoCall
    /\ calls = <<>>
    /\ lastWrite = [k \in Keys |-> NoWrite]

NextAdvisory ==
    \/ request(Undefined)
    \/ CallGetQuotaStatus
    \/ CallCanMakeRequest
    \/ \E error \in NetworkFailures : FetchRejects(error)
    \/ TimeoutFires
    \/ \E r \in AdvisoryResponses : FetchResolves(r)
    \/ \E text \in Bodies : TextResolves(text)
    \/ Tick

SpecAdvisory == InitAdvisory /\ [][NextAdvisory]_vars

----------------------------------------------------------------------------
(* Yalidine: the constructor and validateConfig *)

DefaultTimeout == 30000

\* config.auth?.id, config.auth?.token
AuthField(c, f) == IF c.auth.t = "object" THEN c.auth[f] ELSE Undefined

KnownAgents == {Str("yalidine"), Str("goupex")}

\* the error validateConfig throws, NoError when it returns
validateConfig(c) ==
    IF ~Truthy(c.agent)
    THEN YalidineError("Agent is required", "INVALID_CONFIG")
    ELSE IF c.agent \notin KnownAgents
    THEN YalidineError("Agent must be either \"yalidine\" or \"goupex\"", "INVALID_CONFIG")
    ELSE IF ~Truthy(AuthField(c, "id"))
    THEN YalidineError("API ID is required", "INVALID_CONFIG")
    ELSE IF ~Truthy(AuthField(c, "token"))
    THEN YalidineError("API token is required", "INVALID_CONFIG")
    ELSE IF Truthy(c.timeout) /\ JsLe(c.timeout, 0)
    THEN YalidineError("Timeout must be positive", "INVALID_CONFIG")
    ELSE IF Truthy(c.retries) /\ JsLt(c.retries, 0)
    THEN YalidineError("Retries must be non-negative", "INVALID_CONFIG")
    ELSE NoError

\* a lookup that gives every agent the URL of yalidine
getDefaultBaseURLOfYalidine(agent) == Str("https://api.yalidine.app/v1")

getDefaultBaseURL(agent) ==
    IF agent = Str("yalidine") THEN Str("https://api.yalidine.app/v1")
    ELSE IF agent = Str("goupex") THEN Str("https://api.guepex.app/v1")
    ELSE Undefined

\* this.config = { ...config, baseURL: ..., timeout: ..., retries: ..., debug: ... }
ResolveConfig(c) ==
    [agent |-> c.agent,
     auth |-> c.auth,
     database |-> Or(c.database, MemoryDatabase),
     baseURL |-> Or(c.baseURL, getDefaultBaseURL(c.agent)),
     timeout |-> Or(c.timeout, Num(DefaultTimeout)),
     retries |-> Or(c.retries, Num(DefaultRetries)),
     debug |-> Or(c.debug, Bool(FALSE))]

\* new Yalidine(cfgIn): validate, resolve the defaults, construct the HTTPClient
NewYalidine ==
    /\ session = NoSession
    /\ IF validateConfig(cfgIn) # NoError
       THEN /\ session' = [status |-> "failed", error |-> validateConfig(cfgIn)]
            /\ UNCHANGED <<config, quotaStatus, storeVars>>
       ELSE /\ session' = [status |-> "constructed", config |-> ResolveConfig(cfgIn),
                           initialized |-> FALSE]
            /\ config' = HTTPClientConfig(ResolveConfig(cfgIn).baseURL,
                                          AuthField(cfgIn, "id"), AuthField(cfgIn, "token"),
                                          ResolveConfig(cfgIn).timeout,
                                          ResolveConfig(cfgIn).retries,
                                          ResolveConfig(cfgIn).debug)
            /\ quotaStatus' = [InitialQuota EXCEPT !.lastUpdate = now]
            /\ IF Truthy(cfgIn.database)
               THEN /\ database' = cfgIn.database
                    /\ UNCHANGED <<cache, cleanupInterval, lastWrite>>
               ELSE NewMemoryDatabase
    /\ UNCHANGED <<now, reqVars, cfgIn, call, calls>>

\* the configurations a caller may pass
AgentInputs == {Undefined, Str(""), Str("yalidine"), Str("goupex"), Str("invalid")}
CredentialInputs == {Undefined, Str(""), Str("test")}
AuthInputs ==
    {Undefined} \cup
    {[t |-> "object", id |-> i, token |-> k] : i \in CredentialInputs, k \in CredentialInputs}
TimeoutInputs == {Undefined, Num(0), Num(-1), Num(5000)}
RetriesInputs == {Undefined} \cup {Num(n) : n \in (-1)..MaxRetries}
BaseURLInputs == {Undefined, Str("https://custom.api.com")}
DebugInputs == {Undefined, Bool(TRUE)}
DatabaseInputs == {Undefined, CustomDatabase(TRUE), CustomDatabase(FALSE)}

YalidineConfigs ==
    [agent : AgentInputs, auth : AuthInputs, baseURL : BaseURLInputs,
     timeout : TimeoutInputs, retries : RetriesInputs, debug : DebugInputs,
     database : DatabaseInputs]

\* the one response the remote service gives in this specification
ProbeResponses ==
    {Response(200, QuotaHeader, [d \in QuotaDims |-> Hdr(<<"4">>)], Absent)}

InitConfig ==
    /\ cfgIn \in YalidineConfigs
    /\ session = NoSession
    /\ database = NoDatabase
    /\ cache = EmptyCache
    /\ cleanupInterval = Null
    /\ call = NoCall
    /\ calls = <<>>
    /\ lastWrite = [k \in Keys |-> NoWrite]
    /\ config = NoConfig
    /\ quotaStatus = InitialQuota
    /\ now = 0
    /\ pc = "idle"
    /\ attempt = 0
    /\ maxRetries = 0
    /\ lastError = NoError
    /\ resp = NoResponse
    /\ body = Unread
    /\ result = Pending
    /\ fetchCount = 0
    /\ sleeps = <<>>
    /\ received = 0
    /\ timer = "none"
    /\ caughtError = NoError
    /\ suspended = NoSuspended

NextConfig ==
    \/ NewYalidine
    \/ request(Undefined)
    \/ \E error \in NetworkFailures : FetchRejects(error)
    \/ \E r \in ProbeResponses : FetchResolves(r)
    \/ \E text \in Bodies : TextResolves(text)
    \/ SleepDone

SpecConfig == InitConfig /\ [][NextConfig]_vars

----------------------------------------------------------------------------
(* Yalidine: init, loadCachedData, testConnection, destroy *)

\* the TTL of the cached wilayas, in seconds
WilayasTTL == 24 * 60 * 60

\* `${this.config.agent}:wilayas`
wilayasCacheKey == session.config.agent.v \o ":wilayas"

\* a promise of the session or of the store that resolved with `value`
Returned(value) == [state |-> "resolved", value |-> value]

\* how a call of the store settles
DbResolved(value) == [ok |-> TRUE, value |-> value]
DbRejected(error) == [ok |-> FALSE, error |-> error]

\* an error a store of the caller rejects with
StoreFailure == RawError("Error", "Error", FALSE)

\* how get() and set() of a store of the caller may settle
CustomGetReplies ==
    {DbResolved(Null), DbResolved([t |-> "object", id |-> "abc"]), DbRejected(StoreFailure)}
CustomSetReplies == {DbResolved(Undefined), DbRejected(StoreFailure)}

\* how the pending get() of the session may settle, whichever store it has
GetReplies ==
    CustomGetReplies \cup (IF call.name = "init" /\ call.pc = "get" /\ call.reply # Undefined
                           THEN {call.reply} ELSE {})

\* reading `.data` of a null payload for the debug log
NullPayloadError == RawError("TypeError", "TypeError", FALSE)

\* a call of the session: where it stands, the store methods it called, the number
\* of request() calls it made, how it settled, what a pending store call resolves to,
\* and the error its catch block received
SessionCall(name, at, dbCalls, requests, outcome, reply) ==
    [name |-> name, pc |-> at, dbCalls |-> dbCalls, requests |-> requests,
     outcome |-> outcome, reply |-> reply, caught |-> NoError]

\* an asynchronous operation of the session is awaiting something
InFlight == call.name \in {"init", "testConnection"} /\ call.pc # "done"

\* the caller may call an operation of the session
Callable == session.status = "constructed" /\ ~InFlight /\ Len(calls) < MaxCalls

\* a test that finds no destroy method on any store
HasDestroyNever(db) == FALSE

\* typeof (this.database as any).destroy === 'function'
HasDestroy(db) == db = MemoryDatabase \/ (db.kind = "custom" /\ db.teardown)

\* a loadCachedData whose catch block rethrows
loadCachedDataRethrows(error) == error # NoError

\* whether loadCachedData rejects when its try block threw `error`: the catch block
\* swallows every error
loadCachedDataRejects(error) == FALSE

\* the end of init(): loadCachedData returned, or rejected into init's catch block
InitEnds(error) ==
    IF error # NoError /\ loadCachedDataRejects(error)
    THEN /\ session' = session
         /\ call' = [call EXCEPT !.pc = "done", !.reply = Undefined, !.caught = error,
                        !.outcome = Rejected(YalidineError("Failed to initialize SDK",
                                                           "INIT_ERROR"))]
    ELSE /\ session' = [session EXCEPT !.initialized = TRUE]
         /\ call' = [call EXCEPT !.pc = "done", !.reply = Undefined, !.caught = error,
                                 !.outcome = Returned(Undefined)]

\* an init() that does not look at the initialized flag
initAlways ==
    /\ Callable
    /\ calls' = Append(calls, "init")
    /\ call' = SessionCall("init", "get", <<"get">>, 0, Pending,
                           IF database = MemoryDatabase
                           THEN DbResolved(getValue(cache, wilayasCacheKey, now))
                           ELSE Undefined)
    /\ cache' = IF database = MemoryDatabase THEN Evict(cache, wilayasCacheKey, now)
                                             ELSE cache
    /\ UNCHANGED <<session, database, cleanupInterval, lastWrite, cfgIn, httpVars, reqVars>>

\* init() up to its first await: return when initialized, else loadCachedData calls
\* this.database.get(wilayasCacheKey)
init ==
    /\ Callable
    /\ calls' = Append(calls, "init")
    /\ IF session.initialized
       THEN /\ call' = SessionCall("init", "done", <<>>, 0, Returned(Undefined), Undefined)
            /\ cache' = cache
       ELSE /\ call' = SessionCall("init", "get", <<"get">>, 0, Pending,
                                   IF database = MemoryDatabase
                                   THEN DbResolved(getValue(cache, wilayasCacheKey, now))
                                   ELSE Undefined)
            /\ cache' = IF database = MemoryDatabase
                        THEN Evict(cache, wilayasCacheKey, now)
                        ELSE cache
    /\ UNCHANGED <<session, database, cleanupInterval, lastWrite, cfgIn, httpVars, reqVars>>

\* await this.database.get(...) settles: a cached value ends loadCachedData, none makes
\* it call this.http.get('/wilayas'), a rejection goes to its catch block
InitGetSettles(reply) ==
    /\ call.name = "init" /\ call.pc = "get"
    /\ reply \in (IF database = MemoryDatabase THEN {call.reply} ELSE CustomGetReplies)
    /\ IF ~reply.ok
       THEN InitEnds(reply.error) /\ UNCHANGED reqVars
       ELSE IF Truthy(reply.value)
            THEN InitEnds(NoError) /\ UNCHANGED reqVars
            ELSE /\ StartRequest(Undefined)
                 /\ call' = [call EXCEPT !.pc = "request", !.requests = @ + 1,
                                         !.reply = Undefined]
                 /\ session' = session
    /\ UNCHANGED <<storeVars, cfgIn, calls, httpVars>>

\* await this.http.get('/wilayas') settles: a response is handed to this.database.set
\* with the 24 hours TTL, a rejection goes to the catch block of loadCachedData
InitRequestSettles ==
    /\ call.name = "init" /\ call.pc = "request"
    /\ pc = "done"
    /\ IF result.state = "rejected"
       THEN InitEnds(result.error) /\ UNCHANGED <<cache, lastWrite>>
       ELSE /\ call' = [call EXCEPT !.pc = "set", !.dbCalls = Append(@, "set")]
            /\ session' = session
            /\ IF database = MemoryDatabase
               THEN Stored(wilayasCacheKey, result.data, Num(WilayasTTL))
               ELSE UNCHANGED <<cache, lastWrite>>
    /\ UNCHANGED <<database, cleanupInterval, cfgIn, calls, httpVars, reqVars>>

\* await this.database.set(...) settles; the debug log then reads data.data
InitSetSettles(reply) ==
    /\ call.name = "init" /\ call.pc = "set"
    /\ reply \in (IF database = MemoryDatabase THEN {DbResolved(Undefined)}
                                               ELSE CustomSetReplies)
    /\ IF ~reply.ok
       THEN InitEnds(reply.error)
       ELSE IF Truthy(session.config.debug) /\ result.data = Null
            THEN InitEnds(NullPayloadError)
            ELSE InitEnds(NoError)
    /\ UNCHANGED <<storeVars, cfgIn, calls, httpVars, reqVars>>

\* testConnection() up to its await: this.http.get('/wilayas?page_size=1')
testConnection ==
    /\ Callable
    /\ calls' = Append(calls, "testConnection")
    /\ StartRequest(Undefined)
    /\ call' = SessionCall("testConnection", "request", <<>>, 1, Pending, Undefined)
    /\ UNCHANGED <<session, storeVars, cfgIn, httpVars>>

\* a catch block that lets rate-limit errors through
testConnectionCatchesButRateLimit(error) == error.kind # "YalidineRateLimitError"

\* the catch block of testConnection catches every error
testConnectionCatches(error) == TRUE

\* the probe settles: true, or false from the catch block
TestConnectionSettles ==
    /\ call.name = "testConnection" /\ call.pc = "request"
    /\ pc = "done"
    /\ call' = [call EXCEPT
                   !.pc = "done",
                   !.caught = IF result.state = "rejected" THEN result.error ELSE NoError,
                   !.outcome = IF result.state = "resolved" THEN Returned(Bool(TRUE))
                               ELSE IF testConnectionCatches(result.error)
                                    THEN Returned(Bool(FALSE))
                                    ELSE Rejected(result.error)]
    /\ UNCHANGED <<session, storeVars, cfgIn, calls, httpVars, reqVars>>

\* destroy(): the store's destroy when it has one, then initialized = false
destroy ==
    /\ Callable
    /\ calls' = Append(calls, "destroy")
    /\ IF HasDestroy(database) /\ database = MemoryDatabase
       THEN MemoryDestroyed
       ELSE UNCHANGED <<cache, cleanupInterval, lastWrite>>
    /\ session' = [session EXCEPT !.initialized = FALSE]
    /\ call' = SessionCall("destroy", "done",
                           IF HasDestroy(database) THEN <<"destroy">> ELSE <<>>,
                           0, Returned(Undefined), Undefined)
    /\ UNCHANGED <<database, cfgIn, httpVars, reqVars>>

\* how clear() of the session's store may settle
ClearReplies ==
    IF database = MemoryDatabase THEN {DbResolved(Undefined)}
    ELSE {DbResolved(Undefined), DbRejected(StoreFailure)}

\* a clearCache() that also drops the initialized flag
clearCacheResetsInitialized(reply) ==
    /\ Callable
    /\ reply \in ClearReplies
    /\ calls' = Append(calls, "clearCache")
    /\ IF database = MemoryDatabase THEN Cleared ELSE UNCHANGED <<cache, lastWrite>>
    /\ session' = [session EXCEPT !.initialized = FALSE]
    /\ call' = SessionCall("clearCache", "done", <<"clear">>, 0,
                           IF reply.ok THEN Returned(Undefined) ELSE Rejected(reply.error),
                           Undefined)
    /\ UNCHANGED <<database, cleanupInterval, cfgIn, httpVars, reqVars>>

\* clearCache(): await this.database.clear(), then the debug log
clearCache(reply) ==
    /\ Callable
    /\ reply \in ClearReplies
    /\ calls' = Append(calls, "clearCache")
    /\ IF database = MemoryDatabase THEN Cleared ELSE UNCHANGED <<cache, lastWrite>>
    /\ call' = SessionCall("clearCache", "done", <<"clear">>, 0,
                           IF reply.ok THEN Returned(Undefined) ELSE Rejected(reply.error),
                           Undefined)
    /\ UNCHANGED <<session, database, cleanupInterval, cfgIn, httpVars, reqVars>>

\* the configurations of the sessions: both agents, the store left out or supplied,
\* debug left out or on, every other field left to its default
SessionConfigs ==
    [agent : KnownAgents, auth : {[t |-> "object", id |-> Str("id"), token |-> Str("token")]},
     baseURL : {Undefined}, timeout : {Undefined}, retries : {Undefined},
     debug : DebugInputs, database : DatabaseInputs]

\* what the remote service answers to the session's requests
SessionResponses ==
    {Response(s, QuotaHeader, [d \in QuotaDims |-> Hdr(<<"4">>)], Absent) :
        s \in {200, 429, 500}}

InitSession ==
    /\ cfgIn \in SessionConfigs
    /\ session = NoSession
    /\ database = NoDatabase
    /\ cache = EmptyCache
    /\ cleanupInterval = Null
    /\ call = NoCall
    /\ calls = <<>>
    /\ lastWrite = [k \in Keys |-> NoWrite]
    /\ config = NoConfig
    /\ quotaStatus = InitialQuota
    /\ now = 0
    /\ pc = "idle"
    /\ attempt = 0
    /\ maxRetries = 0
    /\ lastError = NoError
    /\ resp = NoResponse
    /\ body = Unread
    /\ result = Pending
    /\ fetchCount = 0
    /\ sleeps = <<>>
    /\ received = 0
    /\ timer = "none"
    /\ caughtError = NoError
    /\ suspended = NoSuspended

NextSession ==
    \/ NewYalidine
    \/ init
    \/ \E reply \in GetReplies : InitGetSettles(reply)
    \/ InitRequestSettles
    \/ \E reply \in CustomSetReplies : InitSetSettles(reply)
    \/ testConnection
    \/ TestConnectionSettles
    \/ destroy
    \/ \E error \in NetworkFailures : FetchRejects(error)
    \/ TimeoutFires
    \/ \E r \in SessionResponses : FetchResolves(r)
    \/ \E text \in Bodies : TextResolves(text)
    \/ SleepDone

SpecSession == InitSession /\ [][NextSession]_vars

----------------------------------------------------------------------------
(* The in-memory store on its own: `new YalidineMemoryDatabase()`, then its methods, *)
(* the sweep timer and the clock                                                     *)

\* the values and TTLs (in seconds) a caller passes to set()
Values == {Str("v1"), Str("v2")}
TTLs == {Undefined, Num(0), Num(-1), Num(1)}

\* the key the caller of the store uses
StoreKeys == {"yalidine:wilayas"}

HalfSecond == MsPerSecond \div 2

\* half a second passes
ElapseHalfSecond ==
    /\ now % SweepInterval < MaxHalfSeconds * HalfSecond
    /\ now' = now + HalfSecond
    /\ UNCHANGED <<config, quotaStatus, reqVars, sessionVars>>

\* time passes up to the moment the next sweep period begins
ElapseToSweep ==
    /\ now < MaxSweeps * SweepInterval
    /\ now' = ((now \div SweepInterval) + 1) * SweepInterval
    /\ UNCHANGED <<config, quotaStatus, reqVars, sessionVars>>

InitCache ==
    /\ database = MemoryDatabase
    /\ cache = EmptyCache
    /\ cleanupInterval = Interval(SweepInterval)
    /\ lastWrite = [k \in Keys |-> NoWrite]
    /\ call = NoCall
    /\ calls = <<>>
    /\ cfgIn = NoConfig
    /\ session = NoSession
    /\ config = NoConfig
    /\ quotaStatus = InitialQuota
    /\ now = 0
    /\ pc = "idle"
    /\ attempt = 0
    /\ maxRetries = 0
    /\ lastError = NoError
    /\ resp = NoResponse
    /\ body = Unread
    /\ result = Pending
    /\ fetchCount = 0
    /\ sleeps = <<>>
    /\ received = 0
    /\ timer = "none"
    /\ caughtError = NoError
    /\ suspended = NoSuspended

NextCache ==
    \/ \E key \in StoreKeys : get(key)
    \/ \E key \in StoreKeys : has(key)
    \/ \E key \in StoreKeys, value \in Values, ttl \in TTLs : set(key, value, ttl)
    \/ \E key \in StoreKeys : delete(key)
    \/ clear
    \/ cleanup
    \/ YalidineMemoryDatabase_destroy
    \/ ElapseHalfSecond
    \/ ElapseToSweep

SpecCache == InitCache /\ [][NextCache]_vars

----------------------------------------------------------------------------
(* The store of a session: `new Yalidine(config)` without a database, then the       *)
(* methods of getDatabase() on both keys, clearCache(), the sweep timer and a clock   *)
(* that runs from one sweep period to the next                                       *)

\* the configuration of the session: no database, every other field left to its default
StoreConfigs ==
    [agent : {Str("yalidine")},
     auth : {[t |-> "object", id |-> Str("id"), token |-> Str("token")]},
     baseURL : {Undefined}, timeout : {Undefined}, retries : {Undefined},
     debug : {Undefined}, database : {Undefined}]

\* the values and the TTLs (in seconds) the caller passes to set()
StoreValues == {Str("v1"), Str("v2")}
StoreTTLs == {Undefined, Num(1)}

InitStore ==
    /\ cfgIn \in StoreConfigs
    /\ session = NoSession
    /\ database = NoDatabase
    /\ cache = EmptyCache
    /\ cleanupInterval = Null
    /\ call = NoCall
    /\ calls = <<>>
    /\ lastWrite = [k \in Keys |-> NoWrite]
    /\ config = NoConfig
    /\ quotaStatus = InitialQuota
    /\ now = 0
    /\ pc = "idle"
    /\ attempt = 0
    /\ maxRetries = 0
    /\ lastError = NoError
    /\ resp = NoResponse
    /\ body = Unread
    /\ result = Pending
    /\ fetchCount = 0
    /\ sleeps = <<>>
    /\ received = 0
    /\ timer = "none"
    /\ caughtError = NoError
    /\ suspended = NoSuspended

NextStore ==
    \/ NewYalidine
    \/ \E key \in Keys : get(key)
    \/ \E key \in Keys : has(key)
    \/ \E key \in Keys, value \in StoreValues, ttl \in StoreTTLs : set(key, value, ttl)
    \/ \E key \in Keys : delete(key)
    \/ clear
    \/ \E reply \in ClearReplies : clearCache(reply)
    \/ cleanup
    \/ ElapseToSweep

SpecStore == InitStore /\ [][NextStore]_vars

----------------------------------------------------------------------------
(* The life of a session with its in-memory store: init(), clearCache(), destroy(),  *)
(* the caller's own use of getDatabase() and the runs of the sweep between the        *)
(* session's operations, and a clock that runs from one sweep period to the next     *)

\* what the remote service answers to the reference-data request
LifecycleResponses ==
    {Response(200, QuotaHeader, [d \in QuotaDims |-> Hdr(<<"4">>)], Absent)}

\* the TTL (in seconds) the caller passes to set()
LifecycleTTLs == {Num(1)}

NextLifecycle ==
    \/ NewYalidine
    \/ init
    \/ \E reply \in GetReplies : InitGetSettles(reply)
    \/ InitRequestSettles
    \/ \E reply \in CustomSetReplies : InitSetSettles(reply)
    \/ \E reply \in ClearReplies : clearCache(reply)
    \/ destroy
    \/ \E error \in ConcurrentFailures : FetchRejects(error)
    \/ \E r \in LifecycleResponses : FetchResolves(r)
    \/ \E text \in ConcurrentBodies : TextResolves(text)
    \/ SleepDone
    \/ \E key \in StoreKeys : ~InFlight /\ get(key)
    \/ \E key \in StoreKeys : ~InFlight /\ has(key)
    \/ \E key \in StoreKeys, value \in StoreValues, ttl \in LifecycleTTLs :
          ~InFlight /\ set(key, value, ttl)
    \/ ~InFlight /\ cleanup
    \/ ElapseToSweep

SpecLifecycle == InitStore /\ [][NextLifecycle]_vars

----------------------------------------------------------------------------
(* Sessions of both agents on one store: the caller constructs a                     *)
(* YalidineMemoryDatabase, passes it to `new Yalidine(config)` and later to further   *)
(* sessions, calls init() on each and set() on the store                            *)

\* new Yalidine({...cfgIn, agent}) on the store of the earlier session, which gets no
\* further call
NewYalidineOnStore(agent) ==
    /\ Callable
    /\ database = MemoryDatabase
    /\ LET c == [cfgIn EXCEPT !.agent = agent, !.database = database] IN
          /\ validateConfig(c) = NoError
          /\ session' = [status |-> "constructed", config |-> ResolveConfig(c),
                         initialized |-> FALSE]
          /\ config' = HTTPClientConfig(ResolveConfig(c).baseURL,
                                        AuthField(c, "id"), AuthField(c, "token"),
                                        ResolveConfig(c).timeout,
                                        ResolveConfig(c).retries,
                                        ResolveConfig(c).debug)
    /\ quotaStatus' = [InitialQuota EXCEPT !.lastUpdate = now]
    /\ calls' = Append(calls, "new")
    /\ call' = NoCall
    /\ UNCHANGED <<now, reqVars, cfgIn, storeVars>>

\* the configuration of the first session: the caller's store, the other fields left
\* to their defaults
SharedConfigs ==
    [agent : KnownAgents,
     auth : {[t |-> "object", id |-> Str("id"), token |-> Str("token")]},
     baseURL : {Undefined}, timeout : {Undefined}, retries : {Undefined},
     debug : {Undefined}, database : {MemoryDatabase}]

\* the bodies of the answers to the reference-data request
SharedBodies == {"", "{\"id\":\"abc\"}"}

\* the value the caller passes to set()
SharedValues == {Str("v1")}

InitShared ==
    /\ cfgIn \in SharedConfigs
    /\ session = NoSession
    /\ database = MemoryDatabase
    /\ cache = EmptyCache
    /\ cleanupInterval = Interval(SweepInterval)
    /\ call = NoCall
    /\ calls = <<>>
    /\ lastWrite = [k \in Keys |-> NoWrite]
    /\ config = NoConfig
    /\ quotaStatus = InitialQuota
    /\ now = 0
    /\ pc = "idle"
    /\ attempt = 0
    /\ maxRetries = 0
    /\ lastError = NoError
    /\ resp = NoResponse
    /\ body = Unread
    /\ result = Pending
    /\ fetchCount = 0
    /\ sleeps = <<>>
    /\ received = 0
    /\ timer = "none"
    /\ caughtError = NoError
    /\ suspended = NoSuspended

NextShared ==
    \/ NewYalidine
    \/ \E agent \in KnownAgents : NewYalidineOnStore(agent)
    \/ init
    \/ \E reply \in GetReplies : InitGetSettles(reply)
    \/ InitRequestSettles
    \/ \E reply \in CustomSetReplies : InitSetSettles(reply)
    \/ \E error \in ConcurrentFailures : FetchRejects(error)
    \/ \E r \in LifecycleResponses : FetchResolves(r)
    \/ \E text \in SharedBodies : TextResolves(text)
    \/ SleepDone
    \/ \E key \in Keys, value \in SharedValues, ttl \in LifecycleTTLs :
          ~InFlight /\ set(key, value, ttl)
    \/ ~InFlight /\ ElapseToSweep

SpecShared == InitShared /\ [][NextShared]_vars

----------------------------------------------------------------------------
(* Two flows of the caller on one session: each calls init() and destroy() without    *)
(* waiting for the promises of the other, so that a call starts while a call of the   *)
(* other flow waits at one of its awaits                                            *)

\* the flow in focus as it waits: the locals of its request() call and its call of
\* the session
SuspendedCall(id) == Suspended(id) @@ [call |-> call]

\* the event loop turns from the flow in focus to the other flow: the next
\* continuation to run, or the next call of the caller, is one of that flow
YieldCall ==
    /\ suspended # NoSuspended
    /\ suspended' = SuspendedCall(Running)
    /\ call' = suspended.call
    /\ pc' = suspended.pc
    /\ attempt' = suspended.attempt
    /\ maxRetries' = suspended.maxRetries
    /\ lastError' = suspended.lastError
    /\ resp' = suspended.resp
    /\ body' = suspended.body
    /\ result' = suspended.result
    /\ fetchCount' = suspended.fetchCount
    /\ sleeps' = suspended.sleeps
    /\ received' = suspended.received
    /\ timer' = suspended.timer
    /\ caughtError' = suspended.caughtError
    /\ UNCHANGED <<httpVars, cfgIn, session, storeVars, calls>>

\* the configuration of the session: one retry, the other fields left to their defaults
OverlapConfigs ==
    [agent : {Str("yalidine")},
     auth : {[t |-> "object", id |-> Str("id"), token |-> Str("token")]},
     baseURL : {Undefined}, timeout : {Undefined}, retries : {Num(1)},
     debug : {Undefined}, database : {Undefined}]

InitOverlap ==
    /\ cfgIn \in OverlapConfigs
    /\ session = NoSession
    /\ database = NoDatabase
    /\ cache = EmptyCache
    /\ cleanupInterval = Null
    /\ call = NoCall
    /\ calls = <<>>
    /\ lastWrite = [k \in Keys |-> NoWrite]
    /\ config = NoConfig
    /\ quotaStatus = InitialQuota
    /\ now = 0
    /\ pc = "idle"
    /\ attempt = 0
    /\ maxRetries = 0
    /\ lastError = NoError
    /\ resp = NoResponse
    /\ body = Unread
    /\ result = Pending
    /\ fetchCount = 0
    /\ sleeps = <<>>
    /\ received = 0
    /\ timer = "none"
    /\ caughtError = NoError
    /\ suspended = NotCalled(2) @@ [call |-> NoCall]

NextOverlap ==
    \/ NewYalidine
    \/ YieldCall
    \/ init
    \/ \E reply \in GetReplies : InitGetSettles(reply)
    \/ InitRequestSettles
    \/ \E reply \in CustomSetReplies : InitSetSettles(reply)
    \/ destroy
    \/ \E error \in ConcurrentFailures : FetchRejects(error)
    \/ \E r \in LifecycleResponses : FetchResolves(r)
    \/ \E text \in ConcurrentBodies : TextResolves(text)
    \/ SleepDone

SpecOverlap == InitOverlap /\ [][NextOverlap]_vars

----------------------------------------------------------------------------
(* Properties of request(): specification Spec *)

\* request() ended with the current attempt: no sleep and no fetch followed it
EndedWithThisAttempt ==
    /\ pc = "done"
    /\ fetchCount = attempt + 1
    /\ Len(sleeps) = attempt

\* the text of the current attempt's response was read and is empty or valid JSON
BodyParsed == resp # NoResponse /\ body # Unread /\ (body = "" \/ JSONParse(body).ok)

\* the payload of such a body
Payload == IF body = "" THEN Null ELSE JSONParse(body).value

\* the number of fetch() calls never exceeds maxRetries + 1, and a request that
\* ends after transport failures only has made exactly maxRetries + 1
AttemptsBounded ==
    /\ maxRetries >= 0 => fetchCount <= maxRetries + 1
    /\ (pc = "done" /\ maxRetries >= 0 /\ received = 0) => fetchCount = maxRetries + 1

\* C1: a request whose effective maxRetries is n >= 0 and whose every attempt fails
\* without a response makes exactly n + 1 fetch attempts and then rejects with a
\* YalidineNetworkError.
C1_TransportFailuresEndInNetworkError ==
    (pc = "done" /\ maxRetries >= 0 /\ received = 0) =>
        /\ fetchCount = maxRetries + 1
        /\ result.state = "rejected"
        /\ result.error.kind = "YalidineNetworkError"

RateLimitRejection ==
    /\ EndedWithThisAttempt
    /\ result.state = "rejected"
    /\ result.error.kind = "YalidineRateLimitError"

\* C2 (as stated): once an attempt has received a 429 response and read its body,
\* request() has rejected with a YalidineRateLimitError, without a sleep or a further
\* attempt.
C2_Every429IsRateLimit ==
    (resp # NoResponse /\ resp.status = 429 /\ body # Unread) => RateLimitRejection

\* C2 (amended): a 429 response whose body was read and is empty or valid JSON makes
\* request() reject with a YalidineRateLimitError right after that attempt, without a
\* sleep or a further attempt however many retries remain; on the first attempt that
\* is one attempt in total.
C2_ParsedBody429IsRateLimit ==
    (BodyParsed /\ resp.status = 429) =>
        /\ RateLimitRejection
        /\ attempt = 0 => fetchCount = 1

\* a 429 with an empty body on the first attempt of a request with three retries left
C2_Witness ==
    /\ pc = "done"
    /\ resp # NoResponse
    /\ resp.status = 429
    /\ body = ""
    /\ attempt = 0
    /\ maxRetries = DefaultRetries
    /\ result.state = "rejected"
    /\ result.error.kind = "YalidineRateLimitError"

\* C3: the rate-limit error carries the integer of the retry-after header when the
\* header is present and parseable, and 60 when it is absent or unparseable.
C3_RetryAfterOrSixty ==
    (result.state = "rejected" /\ result.error.kind = "YalidineRateLimitError") =>
        result.error.retryAfter =
            IF resp.hdr["retry-after"].present /\ ParseInt(resp.hdr["retry-after"].text) # NaN
            THEN ParseInt(resp.hdr["retry-after"].text)
            ELSE Num(60)

\* C4: a response whose status is outside 2xx and is not 429, with a parseable or
\* empty body, makes request() reject with a YalidineAPIError carrying that status and
\* the parsed body, after exactly that attempt: no sleep and no retry follow.
C4_APIErrorNotRetried ==
    (BodyParsed /\ resp.status \notin 200..299 /\ resp.status # 429) =>
        /\ EndedWithThisAttempt
        /\ result.state = "rejected"
        /\ result.error.kind = "YalidineAPIError"
        /\ result.error.status = resp.status
        /\ result.error.details = Payload

\* a 500 with a JSON body on the second attempt, retries remaining
C4_Witness ==
    /\ pc = "done"
    /\ resp # NoResponse
    /\ resp.status = 500
    /\ body = "{\"id\":\"abc\"}"
    /\ attempt = 1
    /\ attempt < maxRetries
    /\ result.state = "rejected"
    /\ result.error.details = [t |-> "object", id |-> "abc"]

\* C5: for a response of any status, an empty body is a null payload and the status is
\* handled as usual; a non-empty body that is not valid JSON makes request() reject
\* with an API error carrying the response's status, and the attempt is not retried.
C5_EmptyAndInvalidBodies ==
    (resp # NoResponse /\ body # Unread) =>
        /\ body = "" =>
            /\ EndedWithThisAttempt
            /\ resp.status \in 200..299 =>
                /\ result.state = "resolved"
                /\ result.data = Null
                /\ result.status = resp.status
            /\ resp.status = 429 =>
                /\ result.state = "rejected"
                /\ result.error.kind = "YalidineRateLimitError"
            /\ (resp.status \notin 200..299 /\ resp.status # 429) =>
                /\ result.state = "rejected"
                /\ result.error.kind = "YalidineAPIError"
                /\ result.error.status = resp.status
                /\ result.error.details = Null
        /\ (body # "" /\ ~JSONParse(body).ok) =>
            /\ EndedWithThisAttempt
            /\ result.state = "rejected"
            /\ result.error.kind = "YalidineAPIError"
            /\ result.error.message = "Invalid JSON response from API"
            /\ result.error.status = resp.status
            /\ result.error.details.responseText = body

\* a 429 whose body is not JSON, on the first attempt of a request with retries left
C5_Witness ==
    /\ pc = "done"
    /\ resp # NoResponse
    /\ resp.status = 429
    /\ body = "<html>"
    /\ attempt = 0
    /\ maxRetries > 0
    /\ result.state = "rejected"
    /\ result.error.kind = "YalidineAPIError"
    /\ result.error.status = 429

----------------------------------------------------------------------------
(* Properties of the quota tracker: specification SpecQuota *)

\* the integer a quota header of the current response carries, NaN when the header
\* is absent or carries no integer
HeaderCount(h) == IF h.present THEN ParseInt(h.text) ELSE NaN

\* C6: when the quota tracker is updated from a response, each counter is replaced by
\* the integer of its header when that header is present and parseable, and keeps its
\* value from before the update when the header is absent or unparseable.
C6_AbsentHeaderKeepsCounter ==
    [][ (pc = "fetching" /\ pc' = "reading") =>
          \A d \in QuotaDims :
              quotaStatus'[d] =
                  IF HeaderCount(resp'.hdr[QuotaHeader[d]]) # NaN
                  THEN HeaderCount(resp'.hdr[QuotaHeader[d]])
                  ELSE quotaStatus[d] ]_vars

\* C7: a first attempt answered by HTTP 200 with body {"id":"abc"} and the header
\* second-quota-left: 4 resolves after one attempt with that payload, status 200 and a
\* quota snapshot whose per-second counter is 4.
C7_DocumentedHeaderReachesSnapshot ==
    (/\ pc = "done"
     /\ attempt = 0
     /\ resp # NoResponse
     /\ resp.status = 200
     /\ resp.hdr["second-quota-left"] = Hdr(<<"4">>)
     /\ body = "{\"id\":\"abc\"}") =>
        /\ fetchCount = 1
        /\ result.state = "resolved"
        /\ result.data = [t |-> "object", id |-> "abc"]
        /\ result.status = 200
        /\ result.quota.secondQuotaLeft = Num(4)

\* C8: in every reachable state canMakeRequest() returns a boolean, true exactly when
\* all four counters are numbers greater than zero, and false whenever a counter is 0.
C8_CanMakeRequestIffAllPositive ==
    /\ canMakeRequest \in BOOLEAN
    /\ canMakeRequest <=>
           \A d \in QuotaDims : quotaStatus[d].t = "number" /\ quotaStatus[d].v > 0
    /\ (\E d \in QuotaDims : quotaStatus[d] = Num(0)) => ~canMakeRequest

\* the per-day counter alone is 0 after a response
C8_Witness ==
    /\ resp # NoResponse
    /\ quotaStatus.secondQuotaLeft = Num(4)
    /\ quotaStatus.minuteQuotaLeft = Num(4)
    /\ quotaStatus.hourQuotaLeft = Num(4)
    /\ quotaStatus.dayQuotaLeft = Num(0)
    /\ ~canMakeRequest

\* C9: from the moment an attempt has received a response, before its status is
\* looked at and after request() has rejected because of it, each counter whose header
\* the response carries with an integer holds that integer.
C9_TrackerReflectsReceivedResponse ==
    resp # NoResponse =>
        \A d \in QuotaDims :
            HeaderCount(resp.hdr[QuotaHeader[d]]) # NaN =>
                quotaStatus[d] = HeaderCount(resp.hdr[QuotaHeader[d]])

\* request() rejected with a rate-limit failure and the tracker holds the 429's counts
C9_Witness ==
    /\ pc = "done"
    /\ result.state = "rejected"
    /\ result.error.kind = "YalidineRateLimitError"
    /\ resp.status = 429
    /\ resp.hdr["x-second-quota-left"] = Hdr(<<"0">>)
    /\ resp.hdr["x-day-quota-left"] = Hdr(<<"4">>)
    /\ quotaStatus.secondQuotaLeft = Num(0)
    /\ quotaStatus.dayQuotaLeft = Num(4)

----------------------------------------------------------------------------
(* Properties of the constructor: specification SpecConfig *)

\* the configurations the specification calls invalid: an unknown or missing agent, a
\* missing credential id or token, a timeout <= 0, retries < 0
Invalid(c) ==
    \/ c.agent \notin {Str("yalidine"), Str("goupex")}
    \/ AuthField(c, "id") = Undefined
    \/ AuthField(c, "token") = Undefined
    \/ (c.timeout.t = "number" /\ c.timeout.v <= 0)
    \/ (c.retries.t = "number" /\ c.retries.v < 0)

ConfigurationError ==
    /\ session.status = "failed"
    /\ session.error.kind = "YalidineError"
    /\ session.error.code = "INVALID_CONFIG"

\* C10: constructing a session with an unknown or missing agent, a missing credential
\* id or token, a zero or negative timeout, or negative retries fails with a
\* YalidineError of code INVALID_CONFIG, and no network call has occurred.
C10_InvalidConfigIsRejected ==
    (session # NoSession /\ Invalid(cfgIn)) => (ConfigurationError /\ fetchCount = 0)

\* every invalid configuration but a timeout of 0 is rejected, before any fetch
InvalidConfigRejectedUnlessZeroTimeout ==
    (session # NoSession /\ Invalid(cfgIn) /\ cfgIn.timeout # Num(0)) =>
        (ConfigurationError /\ fetchCount = 0)

\* the constraints a configuration violates: the agent is none of the two known values,
\* a credential field is missing or empty, the timeout is not positive, the retries
\* are negative
Violations(c) ==
    {n \in {"agent", "id", "token", "timeout", "retries"} :
        \/ n = "agent" /\ c.agent \notin KnownAgents
        \/ n = "id" /\ AuthField(c, "id") \in {Undefined, Str("")}
        \/ n = "token" /\ AuthField(c, "token") \in {Undefined, Str("")}
        \/ n = "timeout" /\ c.timeout.t = "number" /\ c.timeout.v <= 0
        \/ n = "retries" /\ c.retries.t = "number" /\ c.retries.v < 0}

\* the first of them in the order agent, id, token, timeout, retries
FirstViolated(c) ==
    IF "agent" \in Violations(c) THEN "agent"
    ELSE IF "id" \in Violations(c) THEN "id"
    ELSE IF "token" \in Violations(c) THEN "token"
    ELSE IF "timeout" \in Violations(c) THEN "timeout"
    ELSE IF "retries" \in Violations(c) THEN "retries"
    ELSE "none"

\* the constraint the message of a configuration error names
ConstraintNamed(error) ==
    CASE error.message \in {"Agent is required",
                            "Agent must be either \"yalidine\" or \"goupex\""} -> "agent"
      [] error.message = "API ID is required" -> "id"
      [] error.message = "API token is required" -> "token"
      [] error.message = "Timeout must be positive" -> "timeout"
      [] error.message = "Retries must be non-negative" -> "retries"
      [] OTHER -> "none"

\* no store was created and none was called
NoStoreTouched ==
    /\ database = NoDatabase
    /\ cleanupInterval = Null
    /\ cache = EmptyCache
    /\ call = NoCall
    /\ calls = <<>>

\* C11: when a configuration violates several constraints at once, construction fails
\* naming the first violated one in the order agent value, credential id, credential
\* token, timeout positivity, retries non-negativity, before any network call and
\* without creating or calling a cache store.
C11_FirstViolationIsNamed ==
    (session # NoSession /\ Cardinality(Violations(cfgIn)) >= 2) =>
        /\ ConfigurationError
        /\ ConstraintNamed(session.error) = FirstViolated(cfgIn)
        /\ fetchCount = 0
        /\ NoStoreTouched

\* the same holds of every configuration whose timeout is not 0
FirstViolationIsNamedUnlessZeroTimeout ==
    (session # NoSession /\ Violations(cfgIn) # {} /\ cfgIn.timeout # Num(0)) =>
        /\ ConfigurationError
        /\ ConstraintNamed(session.error) = FirstViolated(cfgIn)
        /\ fetchCount = 0
        /\ NoStoreTouched

\* the optional fields the constructor resolves and hands to the HTTPClient
EngineFields == {"baseURL", "timeout", "retries", "debug"}

\* a request() of the session has ended and every attempt of it failed without a response
TransportFailed == pc = "done" /\ fetchCount > 0 /\ received = 0

\* C12: construction replaces only unset optional fields by defaults: every valid value
\* the caller gave for baseURL, timeout, retries (0 included) and debug is kept in the
\* session's configuration and handed to the HTTPClient, so a session configured with
\* retries = 0 makes exactly one attempt per request even when it fails at transport level.
C12_ProvidedValuesAreKept ==
    (session.status = "constructed" /\ Violations(cfgIn) = {}) =>
        /\ \A f \in EngineFields :
              cfgIn[f] # Undefined => (session.config[f] = cfgIn[f] /\ config[f] = cfgIn[f])
        /\ (cfgIn.retries = Num(0) /\ TransportFailed) => fetchCount = 1

\* the same holds of every valid configuration whose retries are not 0
ProvidedValuesAreKeptUnlessZeroRetries ==
    (session.status = "constructed" /\ Violations(cfgIn) = {} /\ cfgIn.retries # Num(0)) =>
        /\ \A f \in EngineFields :
              cfgIn[f] # Undefined => (session.config[f] = cfgIn[f] /\ config[f] = cfgIn[f])
        /\ (cfgIn.retries # Undefined /\ TransportFailed) => fetchCount = cfgIn.retries.v + 1

\* a session configured with retries = 0 whose request failed at transport level
ZeroRetriesTransportFailed ==
    session.status = "constructed" /\ cfgIn.retries = Num(0) /\ TransportFailed

----------------------------------------------------------------------------
(* Properties of the session: specification SpecSession *)

\* the caller gave the agent and the credentials only
OnlyRequired(c) ==
    /\ c.agent \in KnownAgents
    /\ \A f \in {"baseURL", "timeout", "retries", "debug", "database"} : c[f] = Undefined

\* the documented defaults of a session of `agent`
Defaults(agent, conf) ==
    /\ agent = Str("yalidine") => conf.baseURL = Str("https://api.yalidine.app/v1")
    /\ agent = Str("goupex") => conf.baseURL = Str("https://api.guepex.app/v1")
    /\ conf.timeout = Num(30000)
    /\ conf.retries = Num(3)
    /\ conf.debug = Bool(FALSE)

\* this step is the successful end of an init() call
InitSucceeds ==
    /\ call.name = "init" /\ call.pc # "done"
    /\ call'.name = "init" /\ call'.pc = "done" /\ call'.outcome = Returned(Undefined)

\* C13: a session constructed with only agent and credentials has the base URL of its
\* agent (yalidine -> https://api.yalidine.app/v1, goupex -> https://api.guepex.app/v1),
\* timeout 30000 ms, retries 3 and debug false, in its own configuration and in the
\* HTTPClient's, and its initialized flag is false until an init() call succeeds.
C13_DefaultsAndNotInitialized ==
    [][(OnlyRequired(cfgIn) /\ session'.status = "constructed") =>
          /\ Defaults(cfgIn.agent, session'.config)
          /\ Defaults(cfgIn.agent, config')
          /\ session'.initialized =>
                \/ session.status = "constructed" /\ session.initialized
                \/ InitSucceeds]_vars

\* a goupex session with defaults only that init() has initialized
C13_Witness ==
    /\ OnlyRequired(cfgIn) /\ cfgIn.agent = Str("goupex")
    /\ session.status = "constructed" /\ session.initialized
    /\ call.name = "init" /\ call.requests = 1 /\ call.dbCalls = <<"get", "set">>

\* the call in `call` is the last of `calls`, an init(), and an earlier init() was
\* called with no destroy() between the two (calls do not overlap here, and init()
\* has no failing end, so that earlier call completed successfully)
LaterInit ==
    /\ call.name = "init"
    /\ calls # <<>> /\ calls[Len(calls)] = "init"
    /\ \E i \in 1..(Len(calls) - 1) :
          /\ calls[i] = "init"
          /\ \A j \in (i + 1)..(Len(calls) - 1) : calls[j] # "destroy"

\* C14: init() is idempotent: once an init() call has completed successfully, every
\* later init() call with no destroy() in between returns at once, without a request()
\* call and without calling the store, so two init() calls in sequence populate at
\* most once.
C14_InitIsIdempotent ==
    LaterInit =>
        /\ call.pc = "done" /\ call.outcome = Returned(Undefined)
        /\ call.requests = 0
        /\ call.dbCalls = <<>>
        /\ pc \in {"idle", "done"}
        /\ session.initialized

\* a second init() after a first one that fetched and stored the wilayas
C14_Witness ==
    /\ calls = <<"init", "init">>
    /\ LaterInit
    /\ fetchCount >= 1 /\ database = MemoryDatabase
    /\ Truthy(cache[wilayasCacheKey])

\* an init() call has ended after loadCachedData caught `call.caught`
InitCaught == call.name = "init" /\ call.pc = "done" /\ call.caught # NoError

\* the error came from the reference-data request: request() rejected with it
RequestFailed == call.requests = 1 /\ result.state = "rejected" /\ call.caught = result.error

\* the error came from the store's set
SetFailed == call.dbCalls = <<"get", "set">> /\ call.caught = StoreFailure

\* the error came from the store's get: nothing else was called
GetFailed == call.dbCalls = <<"get">> /\ call.requests = 0 /\ call.caught = StoreFailure

\* C15: caching failures during init() never fail init(): when the reference-data
\* request fails with any kind of failure (after its retries) or the store's set
\* fails, init() still resolves and the session is initialized.
C15_CachingFailuresAreSwallowed ==
    (InitCaught /\ (RequestFailed \/ SetFailed)) =>
        (call.outcome = Returned(Undefined) /\ session.initialized)

\* an init() whose set failed after a successful request
C15_Witness ==
    /\ InitCaught /\ SetFailed
    /\ call.requests = 1 /\ result.state = "resolved"
    /\ session.initialized

\* the kinds of failure of the reference-data request that init() swallowed
SwallowedKinds(kind) == InitCaught /\ RequestFailed /\ call.caught.kind = kind

\* C16: when the store's get fails during init(), init() fails with a YalidineError of
\* code INIT_ERROR and the session stays un-initialized.
C16_GetFailureFailsInit ==
    (InitCaught /\ GetFailed) =>
        /\ call.outcome.state = "rejected"
        /\ call.outcome.error.kind = "YalidineError"
        /\ call.outcome.error.code = "INIT_ERROR"
        /\ ~session.initialized

\* a testConnection() call has ended
ProbeEnded == call.name = "testConnection" /\ call.pc = "done"

\* its probe request succeeded: a 2xx response whose body is empty or valid JSON
ProbeSucceeded == resp # NoResponse /\ Ok(resp.status) /\ BodyParsed

\* C17: testConnection() never rejects: it resolves true exactly when its probe request
\* succeeds (2xx with a parseable body) and resolves false for every kind of failure:
\* network or timeout after the retries are used up, rate limit, API, parse failure.
C17_TestConnectionNeverRejects ==
    ProbeEnded =>
        /\ call.outcome.state = "resolved"
        /\ call.outcome.value = Bool(ProbeSucceeded)
        /\ call.requests = 1

\* a probe that was answered 429 and made testConnection() resolve false
C17_Witness ==
    /\ ProbeEnded
    /\ result.state = "rejected" /\ result.error.kind = "YalidineRateLimitError"
    /\ call.outcome = Returned(Bool(FALSE))

\* a probe that failed with an error of `kind` and message `message`
ProbeFailedWith(kind, message) ==
    /\ ProbeEnded /\ call.outcome = Returned(Bool(FALSE))
    /\ call.caught.kind = kind
    /\ kind # "raw" => call.caught.message = message

\* this step is a call of destroy() on the session
DestroyStep == calls' = Append(calls, "destroy")

\* the call before it was a destroy() too
DestroyedBefore == calls # <<>> /\ calls[Len(calls)] = "destroy"

FilledBeforeDestroy ==
    /\ calls = <<"init">> /\ call.pc = "done"
    /\ database = MemoryDatabase /\ Truthy(cache[wilayasCacheKey])
    /\ session.initialized

----------------------------------------------------------------------------
(* Properties of the in-memory store: specification SpecCache *)

\* the last write of `key` was a set() with a TTL > 0, not deleted, overwritten or
\* cleared since
WrittenWithTTL(key) ==
    /\ lastWrite[key].op = "set"
    /\ lastWrite[key].ttl.t = "number" /\ lastWrite[key].ttl.v > 0

\* the instant ttl seconds after that set()
ExpiryOf(key) == lastWrite[key].at + lastWrite[key].ttl.v * 1000

\* the last write of `key` was a set() with the TTL left out or <= 0
WrittenWithoutTTL(key) ==
    /\ lastWrite[key].op = "set"
    /\ \/ lastWrite[key].ttl = Undefined
       \/ lastWrite[key].ttl.t = "number" /\ lastWrite[key].ttl.v <= 0

\* the last call of the store was `name` on `key`
Read(name, key) == call.name = name /\ call.key = key

\* C19: for every key K, value V and TTL t > 0 seconds: after set(K, V, t), get(K)
\* returns V and has(K) returns true at every instant up to the expiry, and at every
\* instant after t seconds have passed get(K) returns null and has(K) returns false,
\* whether or not the sweep has run.
C19_EntryLivesUntilExpiry ==
    \A key \in Keys :
        WrittenWithTTL(key) =>
            /\ IF now <= ExpiryOf(key)
               THEN /\ getValue(cache, key, now) = lastWrite[key].value
                    /\ hasValue(cache, key, now) = TRUE
               ELSE /\ getValue(cache, key, now) = Null
                    /\ hasValue(cache, key, now) = FALSE
            /\ Read("get", key) =>
                  call.returned = (IF call.at <= ExpiryOf(key) THEN lastWrite[key].value
                                                               ELSE Null)
            /\ Read("has", key) => call.returned = (call.at <= ExpiryOf(key))

\* a get() after the expiry returned null while the entry was still in the Map: no
\* sweep had run yet
C19_Witness ==
    \E key \in Keys :
        /\ WrittenWithTTL(key) /\ lastWrite[key].at = 0
        /\ Read("get", key) /\ call.at = 3 * HalfSecond /\ call.returned = Null
        /\ cleanupInterval = Interval(SweepInterval)

\* a get() at the very instant of the expiry returned the value
ReadAtExpiry ==
    \E key \in Keys :
        /\ WrittenWithTTL(key)
        /\ Read("get", key) /\ call.at = ExpiryOf(key)
        /\ call.returned = lastWrite[key].value

\* C20: an entry stored with the TTL left out, or with a TTL <= 0, never expires: after
\* any amount of time, any number of get/has reads and any number of sweeps, get(K)
\* still returns V, until K is deleted, overwritten, or the store is cleared or destroyed.
C20_EntryWithoutTTLStays ==
    \A key \in Keys :
        WrittenWithoutTTL(key) =>
            /\ getValue(cache, key, now) = lastWrite[key].value
            /\ hasValue(cache, key, now) = TRUE
            /\ cache[key].expiry = Undefined
            /\ Read("get", key) => call.returned = lastWrite[key].value
            /\ Read("has", key) => call.returned = TRUE

\* an entry set with TTL 0 at the start, read after two sweeps have run
C20_Witness ==
    \E key \in Keys :
        /\ WrittenWithoutTTL(key) /\ lastWrite[key].ttl = Num(0) /\ lastWrite[key].at = 0
        /\ cleanupInterval = Interval(3 * SweepInterval)
        /\ Read("get", key) /\ call.at >= 2 * SweepInterval
        /\ call.returned = lastWrite[key].value

----------------------------------------------------------------------------
(* Properties of the store of a session: specification SpecStore *)

\* the entry under `key` has an expiry and `time` is past it
PastExpiry(c, key, time) ==
    /\ c[key] # Undefined
    /\ c[key].expiry # Undefined
    /\ time > c[key].expiry.v

\* this step is a get(key) or a has(key)
ReadStep(key) == call' # call /\ call'.name \in {"get", "has"} /\ call'.key = key

\* this step is a run of the periodic sweep
SweepStep == call'.name = "cleanup" /\ cleanupInterval' # cleanupInterval

\* C21: an entry whose expiry has passed is treated as absent by the next get or has on
\* its key and is removed from the Map by that read; the periodic sweep removes exactly
\* the entries whose expiry has passed and leaves every other entry, value and expiry,
\* as it was.
C21_ExpiredEntriesAreEvicted ==
    [][ /\ \A key \in Keys :
              (ReadStep(key) /\ PastExpiry(cache, key, now)) =>
                  /\ call'.returned = (IF call'.name = "get" THEN Null ELSE FALSE)
                  /\ cache'[key] = Undefined
                  /\ \A other \in Keys \ {key} : cache'[other] = cache[other]
        /\ SweepStep =>
              \A key \in Keys :
                  cache'[key] = (IF PastExpiry(cache, key, now) THEN Undefined
                                                                ELSE cache[key]) ]_vars

\* a get() found an expired entry before any sweep had run and removed it, while the
\* other key kept its entry
C21_Witness ==
    \E key \in Keys :
        /\ WrittenWithTTL(key) /\ call.name = "get" /\ call.key = key
        /\ call.at > ExpiryOf(key) /\ call.returned = Null
        /\ cache[key] = Undefined
        /\ cleanupInterval = Interval(SweepInterval)
        /\ \E other \in Keys \ {key} : cache[other] # Undefined

\* a sweep removed the expired entry of one key and kept the unexpired entry of the other
C21_SweepWitness ==
    \E key \in Keys :
        /\ call.name = "cleanup"
        /\ WrittenWithTTL(key) /\ now > ExpiryOf(key) /\ cache[key] = Undefined
        /\ \E other \in Keys \ {key} :
              /\ WrittenWithTTL(other) /\ now <= ExpiryOf(other)
              /\ cache[other] # Undefined

\* this step is a delete(key)
DeleteStep(key) == call'.name = "delete" /\ call'.key = key /\ now' = now

\* this step is a clear() of the store, called directly or by the session's clearCache()
ClearStep ==
    \/ call'.name = "clear" /\ now' = now
    \/ calls' # calls /\ calls'[Len(calls')] = "clearCache"

\* `key` was removed by delete or clear and not set since
Removed(key) == lastWrite[key].op \in {"delete", "clear"}

\* what a read `name` returns for a key that is absent
AbsentReply(name) == IF name = "get" THEN Null ELSE FALSE

\* C22: after delete(K), get(K) returns null and has(K) returns false while every other
\* key keeps its value and expiry; after clear(), and after the session's clearCache(),
\* get returns null and has returns false for every key.
C22_DeleteAndClearRemove ==
    [][ /\ \A key \in Keys :
              DeleteStep(key) =>
                  /\ cache'[key] = Undefined
                  /\ \A other \in Keys \ {key} : cache'[other] = cache[other]
        /\ ClearStep => \A key \in Keys : cache'[key] = Undefined
        /\ \A key \in Keys :
              (ReadStep(key) /\ Removed(key)) =>
                  call'.returned = AbsentReply(call'.name) ]_vars

\* a get(K) after delete(K) returned null while the other key still held its entry
C22_Witness ==
    \E key \in Keys :
        /\ lastWrite[key].op = "delete"
        /\ call.name = "get" /\ call.key = key /\ call.returned = Null
        /\ \E other \in Keys \ {key} :
              /\ lastWrite[other].op = "set"
              /\ cache[other] = CacheEntry(lastWrite[other].value, Undefined)

\* a has() after a clearCache() that removed the entries of both keys returned false
C22_ClearCacheWitness ==
    /\ calls # <<>> /\ calls[Len(calls)] = "clearCache"
    /\ \A key \in Keys : lastWrite[key] = [op |-> "clear", removed |-> TRUE]
    /\ call.name = "has" /\ call.returned = FALSE

----------------------------------------------------------------------------
(* Properties of the store's teardown: specification SpecCache *)

\* this step is a destroy() of the store
StoreDestroyStep == call'.name = "destroy" /\ now' = now

\* the store was destroyed and nothing was written since
StoreDestroyed == \A key \in Keys : lastWrite[key].op = "destroy"

\* C23: after YalidineMemoryDatabase.destroy(), whatever set/get/delete operations
\* preceded it, the sweep timer is no longer scheduled and the store holds no entries;
\* a second destroy() changes nothing and does not throw.
C23_DestroyStopsSweepAndEmpties ==
    [][ /\ StoreDestroyStep =>
              /\ cleanupInterval' = Null
              /\ \A key \in Keys : cache'[key] = Undefined
        /\ (StoreDestroyStep /\ call.name = "destroy") =>
              /\ cache' = cache
              /\ cleanupInterval' = cleanupInterval
        /\ cleanupInterval = Null => ~SweepStep /\ cleanupInterval' = Null ]_vars

\* a store holding an entry was destroyed, and two sweep periods after its construction
\* no sweep is scheduled and the Map is empty
C23_Witness ==
    /\ StoreDestroyed
    /\ call.name = "destroy" /\ call.removed # {}
    /\ cleanupInterval = Null
    /\ cache = EmptyCache
    /\ now = 2 * SweepInterval

----------------------------------------------------------------------------
(* Properties of the timeout of an attempt: specification Spec *)

\* the network exchange of the current attempt has not completed: fetch() is pending,
\* or the response was received and its body is being read
ExchangeInFlight == pc \in {"fetching", "reading"}

\* C24: no attempt stays in flight beyond its effective timeout: as long as the exchange
\* of an attempt has not completed (response received and its body read), the attempt's
\* timeout timer is armed, so that its firing aborts the call.
C24_ExchangeIsCoveredByTimeout == ExchangeInFlight => timer = "armed"

\* the timer firing while fetch() is pending is a timeout failure, retried while
\* attempts remain
TimeoutDuringFetchIsRetried ==
    [][ (pc = "fetching" /\ timer = "armed" /\ timer' = "fired") =>
            /\ lastError' = YalidineNetworkError("Request timeout", AbortError)
            /\ IF attempt < maxRetries
               THEN pc' = "sleeping" /\ result' = Pending
               ELSE pc' = "done" /\ result' = Rejected(lastError') ]_vars

\* the body of a response is being read and the timer of the attempt was cleared
BodyReadWithoutTimeout == pc = "reading" /\ timer = "cleared"

----------------------------------------------------------------------------
(* Properties of the failures of request(): specification Spec *)

\* the failure kinds of the SDK a request() may propagate
TypedFailures == {"YalidineNetworkError", "YalidineRateLimitError", "YalidineAPIError"}

\* C25: every rejection of request() is a typed failure: a YalidineNetworkError, a
\* YalidineRateLimitError or a YalidineAPIError; no raw transport or runtime error of
\* an attempt reaches the caller unwrapped.
C25_EveryRejectionIsTyped ==
    result.state = "rejected" => result.error.kind \in TypedFailures

\* request() rejected with the raw error the body read failed with
RawRejectionFromBodyRead ==
    /\ pc = "done" /\ result.state = "rejected"
    /\ result.error.kind = "raw" /\ received > 0

----------------------------------------------------------------------------
(* Properties of the quota counters: specification SpecQuota *)

\* x is a non-negative integer
IsCount(x) == x.t = "number" /\ x.v \in Nat

\* C27: in every reachable state, after construction and after any sequence of
\* responses with present, absent or malformed quota headers, each of the four quota
\* counters is a non-negative integer.
C27_CountersAreNonNegativeIntegers ==
    \A d \in QuotaDims : IsCount(quotaStatus[d])

\* a response without quota headers left every counter undefined
CountersUndefined ==
    /\ resp # NoResponse
    /\ \A d \in QuotaDims : resp.hdr[QuotaHeader[d]] = Absent /\ quotaStatus[d] = Undefined

----------------------------------------------------------------------------
(* Properties of the backoff: specification SpecBackoff *)

\* the delays the retries of one request() sleep, in order
BackoffSchedule == <<1000, 2000, 4000, 8000>>

\* C26: when attempt k (counted from 0) fails at transport level and attempts remain,
\* request() sleeps exactly min(1000 * 2^k, 10000) ms before attempt k+1: 1000, 2000,
\* 4000, 8000, then 10000 for every later retry; it never sleeps after the final attempt
\* or after a failure that is not retried.
C26_BackoffIsCappedExponential ==
    /\ \A i \in 1..Len(sleeps) :
          sleeps[i] = (IF i <= Len(BackoffSchedule) THEN BackoffSchedule[i] ELSE 10000)
    /\ pc = "sleeping" => Len(sleeps) = attempt + 1 /\ attempt < maxRetries
    /\ pc \in {"fetching", "reading", "done"} => Len(sleeps) = attempt

\* every attempt of a request() with six retries failed at transport level: the delays
\* reached the cap, and no sleep followed the seventh attempt
C26_Witness ==
    /\ pc = "done" /\ result.state = "rejected" /\ received = 0
    /\ fetchCount = 7
    /\ sleeps = <<1000, 2000, 4000, 8000, 10000, 10000>>

----------------------------------------------------------------------------
(* Properties of the propagated failure: specification Spec *)

\* the fallback request() throws when the loop ended with nothing captured
GenericFallback == YalidineNetworkError("Request failed after all retries", NoError)

\* request() ended because its last attempt failed at transport level: the error its
\* catch block received is no failure of the SDK
ExhaustedByTransportFailure ==
    pc = "done" /\ result.state = "rejected" /\ caughtError.kind = "raw"

\* `failure` is `error` itself or the network failure that wraps it
Carries(failure, error) ==
    \/ failure = error
    \/ failure.kind = "YalidineNetworkError" /\ failure.originalError = error

\* C30: for every maxRetries >= 0 request() makes at least one attempt, and when all
\* attempts fail at transport level the failure it propagates is the one captured on
\* the final attempt, never the generic 'Request failed after all retries' fallback.
C30_FinalAttemptFailureIsPropagated ==
    /\ (pc # "idle" /\ maxRetries >= 0) => fetchCount >= 1
    /\ (maxRetries >= 0 /\ ExhaustedByTransportFailure) =>
          /\ fetchCount = maxRetries + 1
          /\ Carries(result.error, caughtError)
          /\ result.error # GenericFallback

\* three attempts failed, the last one with a network error that followed a timeout or
\* another network error: request() rejected with the network failure of the last one
C30_Witness ==
    /\ pc = "done" /\ maxRetries = 2 /\ fetchCount = 3 /\ received = 0
    /\ caughtError = RawError("TypeError", "TypeError", TRUE)
    /\ result = Rejected(YalidineNetworkError("Network error", caughtError))

\* a request() with a negative retry count made no attempt and threw the fallback
NoAttemptThrowsFallback ==
    pc = "done" /\ maxRetries < 0 /\ fetchCount = 0 /\ result = Rejected(GenericFallback)

----------------------------------------------------------------------------
(* Properties of concurrent request() calls: specification SpecConcurrent *)

\* this step is a continuation of the call in focus, not a turn to the other call
SameCallRuns == suspended'.id = suspended.id

\* this step is the call in focus receiving a response
ResponseStep == SameCallRuns /\ pc = "fetching" /\ pc' = "reading"

\* this step is the timeout of the call in focus firing and aborting its attempt
TimeoutStep == SameCallRuns /\ pc = "fetching" /\ timer = "armed" /\ timer' = "fired"

\* the value the header of counter d supplies in response r
Supplied(r, d) == ParseInt(r.hdr[QuotaHeader[d]].text)

\* C28: when several request() calls run concurrently on one engine, after any
\* interleaving of their responses each quota counter holds its seed default or the
\* value supplied by the header of the response processed last among those carrying
\* that header.  Stated step by step: a counter starts at its seed, a response carrying
\* its header replaces it by the value supplied, and nothing else changes it.
C28_LastWriterWins ==
    [][ \A d \in QuotaDims :
            quotaStatus'[d] = (IF ResponseStep /\ resp'.hdr[QuotaHeader[d]].present
                               THEN Supplied(resp', d)
                               ELSE quotaStatus[d]) ]_vars

\* a response replaces each counter whose header it carries, whichever call received
\* it, and no step that receives no response changes a counter
CarriedHeadersReplaceCounters ==
    [][ /\ ResponseStep =>
              \A d \in QuotaDims :
                  resp'.hdr[QuotaHeader[d]].present => quotaStatus'[d] = Supplied(resp', d)
        /\ ~ResponseStep => quotaStatus' = quotaStatus ]_vars

\* both calls received a response, the second one without the per-hour header, and the
\* per-hour counter holds a value no response supplied
CounterNoResponseSupplied ==
    /\ suspended.pc = "reading" /\ pc = "reading"
    /\ suspended.resp.hdr["x-hour-quota-left"] = Hdr(<<"4">>)
    /\ resp.hdr["x-hour-quota-left"] = Absent
    /\ quotaStatus.hourQuotaLeft = Undefined

\* C29: there is no cross-call cancellation: when the timeout of one in-flight request()
\* call fires and aborts its attempt, the other in-flight call is not aborted and its
\* attempt count and outcome do not change.
C29_NoCrossCallCancellation ==
    [][ TimeoutStep => suspended' = suspended ]_vars

\* one call was aborted by its timeout on its last attempt and rejected, while the first
\* attempt of the other call is still waiting for its response with its timer armed
C29_Witness ==
    /\ pc = "done" /\ timer = "fired"
    /\ result = Rejected(YalidineNetworkError("Request timeout", AbortError))
    /\ suspended.pc = "fetching" /\ suspended.timer = "armed"
    /\ suspended.fetchCount = 1 /\ suspended.result = Pending

----------------------------------------------------------------------------
(* Properties of the timers of the attempts: specification Spec *)

\* the current attempt has ended: request() sleeps before the next one, or has settled
AttemptEnded == pc \in {"sleeping", "done"}

\* C35: every timeout timer armed by an attempt is cancelled by the time that attempt
\* ends, whatever its outcome, so once request() has resolved or rejected no timer
\* armed by it is still pending.
C35_NoTimerOutlivesItsAttempt == AttemptEnded => timer # "armed"

\* an attempt that received a response ended with its timer cleared
TimerClearedAfterResponse ==
    (AttemptEnded /\ resp # NoResponse) => timer = "cleared"

\* request() rejected after fetch() failed, and the timer of that attempt is pending
TimerPendingAfterRejection ==
    /\ pc = "done" /\ result.state = "rejected" /\ received = 0
    /\ caughtError \in NetworkFailures
    /\ timer = "armed"

----------------------------------------------------------------------------
(* Properties of the quota tracker during failed attempts: specification Spec *)

\* this step is fetch() resolving with a response
ResponseReceived == pc = "fetching" /\ pc' = "reading"

\* C37: an attempt that ends without a response (network failure or timeout), and a
\* backoff sleep, leave the four quota counters and the last-update timestamp
\* unchanged: after construction the tracker changes only when a response has been
\* received.
C37_TrackerChangesOnlyOnResponse ==
    [][ ~ResponseReceived => quotaStatus' = quotaStatus ]_vars

\* a request() whose three attempts all ended without a response, after an earlier
\* request() had received counts of 4 at instant 0: the tracker still holds them and
\* their timestamp
C37_Witness ==
    /\ pc = "done" /\ result.state = "rejected" /\ received = 0
    /\ fetchCount = 3 /\ Len(sleeps) = 2
    /\ \A d \in QuotaDims : quotaStatus[d] = Num(4)
    /\ quotaStatus.lastUpdate = 0 /\ now = 1

----------------------------------------------------------------------------
(* Properties of the returned quota snapshot: specification SpecConcurrent *)

\* C34: the quota snapshot returned in a successful response reflects that response's
\* own quota headers, also when other request() calls on the same engine run
\* concurrently: each counter whose header the response carries holds, in the snapshot,
\* the value that header supplied.
C34_SnapshotIsOfOwnResponse ==
    (pc = "done" /\ result.state = "resolved") =>
        \A d \in QuotaDims :
            resp.hdr[QuotaHeader[d]].present => result.quota[d] = Supplied(resp, d)

\* a call returned a snapshot whose per-second counter is the 0 of the response the
\* other call received while this call was reading the body of its own response, which
\* carried 4
SnapshotOfOtherResponse ==
    /\ pc = "done" /\ result.state = "resolved"
    /\ resp.hdr["x-second-quota-left"] = Hdr(<<"4">>)
    /\ result.quota.secondQuotaLeft = Num(0)
    /\ suspended.resp # NoResponse
    /\ suspended.resp.hdr["x-second-quota-left"] = Hdr(<<"0">>)

----------------------------------------------------------------------------
(* Properties of the advisory quota tracker: specification SpecAdvisory *)

\* this step is a call of request()
RequestStep ==
    /\ pc \in {"idle", "done"}
    /\ pc' # pc \/ result' # result \/ fetchCount' # fetchCount

\* this step is a call of getQuotaStatus() or canMakeRequest()
AccessorStep == call' # call

----------------------------------------------------------------------------
(* Properties of set(): specification SpecStore *)

\* this step is a set() on `key`
SetStep(key) == call'.name = "set" /\ call'.key = key /\ now' = now

\* the expiry of an entry set at `time` with `ttl`: ttl seconds later, none without TTL
ExpiryAfter(ttl, time) ==
    IF ttl.t = "number" /\ ttl.v > 0 THEN Num(time + ttl.v * 1000) ELSE Undefined

\* C38: set replaces the whole entry of its key, value and expiry together: after
\* set(K, V1, t) followed by set(K, V2) without TTL, K holds V2 and never expires; after
\* set(K, V1) followed by set(K, V2, t), K holds V2 and expires t seconds after the
\* second set; entries of other keys are unchanged.
C38_SetReplacesTheEntry ==
    [][ /\ \A key \in Keys :
              SetStep(key) =>
                  /\ cache'[key] = CacheEntry(lastWrite'[key].value,
                                              ExpiryAfter(lastWrite'[key].ttl, now))
                  /\ \A other \in Keys \ {key} : cache'[other] = cache[other]
        /\ \A key \in Keys :
              (ReadStep(key) /\ lastWrite[key].op = "set") =>
                  call'.returned =
                      (IF /\ ExpiryAfter(lastWrite[key].ttl, lastWrite[key].at) # Undefined
                          /\ now > ExpiryAfter(lastWrite[key].ttl, lastWrite[key].at).v
                       THEN AbsentReply(call'.name)
                       ELSE IF call'.name = "get" THEN lastWrite[key].value ELSE TRUE)
      ]_vars

\* set(K, V2) without TTL replaced an entry holding V1 with an expiry: K holds V2 with
\* no expiry, and the other key holds its entry
C38_Witness ==
    \E key \in Keys :
        /\ call.name = "set" /\ call.key = key
        /\ call.replaced # Undefined
        /\ call.replaced.value = Str("v1") /\ call.replaced.expiry # Undefined
        /\ cache[key] = CacheEntry(Str("v2"), Undefined)
        /\ \E other \in Keys \ {key} : cache[other] # Undefined

\* set(K, V2, t) replaced an entry holding V1 without expiry a sweep period after it
\* was set: K expires t seconds after the second set
C38_WitnessTTL ==
    \E key \in Keys :
        /\ call.name = "set" /\ call.key = key
        /\ call.replaced = CacheEntry(Str("v1"), Undefined)
        /\ now = SweepInterval
        /\ cache[key] = CacheEntry(Str("v2"), Num(SweepInterval + 1000))

----------------------------------------------------------------------------
(* Properties of clearCache(): specification SpecLifecycle *)

\* this step is a call of clearCache(), of init()
ClearCacheStep == calls' = Append(calls, "clearCache")
InitStep == calls' = Append(calls, "init")

\* in the log `cs` of the session's operations, a clearCache() was called on an
\* initialized session (an init() before it, no destroy() between them) and no
\* destroy() has been called since
ClearedWhileInitialized(cs) ==
    \E i \in 1..Len(cs) :
        /\ cs[i] = "clearCache"
        /\ \E h \in 1..(i - 1) :
              cs[h] = "init" /\ \A j \in (h + 1)..(i - 1) : cs[j] # "destroy"
        /\ \A j \in (i + 1)..Len(cs) : cs[j] # "destroy"

\* the entry of `key` in the Map c is the one init() wrote: its last write lw is a set
\* with the TTL of the reference data
ReferenceDataCached(c, lw, key) ==
    c[key] # Undefined /\ lw[key].op = "set" /\ lw[key].ttl = Num(WilayasTTL)

\* C39: clearCache() leaves the initialized flag and the quota tracker unchanged, so on
\* an initialized session a clearCache() followed by init() issues no request, and the
\* cleared reference data is not cached again until destroy() has been called.
C39_ClearCacheKeepsInitialized ==
    [][ /\ ClearCacheStep => session' = session /\ quotaStatus' = quotaStatus
        /\ (InitStep /\ ClearedWhileInitialized(calls)) =>
              /\ call'.pc = "done" /\ call'.requests = 0
              /\ call'.outcome = Returned(Undefined)
              /\ pc' = pc /\ fetchCount' = fetchCount /\ cache' = cache
        /\ ClearedWhileInitialized(calls') =>
              \A key \in Keys : ~ReferenceDataCached(cache', lastWrite', key) ]_vars

\* init() filled the store, clearCache() emptied it, and a second init() returned
\* without a request: the session is initialized and the store is empty
C39_Witness ==
    /\ calls = <<"init", "clearCache", "init">>
    /\ call.name = "init" /\ call.pc = "done" /\ call.requests = 0
    /\ session.initialized
    /\ cache = EmptyCache
    /\ lastWrite["yalidine:wilayas"] = [op |-> "clear", removed |-> TRUE]

----------------------------------------------------------------------------
(* Properties of the sweep after destroy(): specification SpecLifecycle *)

\* the in-memory store of the session has no sweep scheduled
SweepStopped == database = MemoryDatabase /\ cleanupInterval = Null

\* this step is a call of the session's destroy()
SessionDestroyStep == calls' = Append(calls, "destroy")

\* this step removes entries by other means than the sweep: a read of `key` by the
\* caller or by init(), clearCache(), destroy()
RemovalStep(key) ==
    \/ ReadStep(key)
    \/ InitStep /\ key = wilayasCacheKey
    \/ ClearCacheStep
    \/ SessionDestroyStep

\* C40: destroy() is terminal for the periodic sweep of the in-memory store: after
\* destroy() no later operation (set, get, has, or an init() that fills the store
\* again) schedules the sweep again, so entries written after destroy() are removed
\* only by lazy eviction on read, by delete or by clear.
C40_DestroyEndsTheSweep ==
    [][ /\ (SessionDestroyStep /\ database = MemoryDatabase) => cleanupInterval' = Null
        /\ SweepStopped => cleanupInterval' = Null /\ call'.name # "cleanup"
        /\ \A key \in Keys :
              (SweepStopped /\ cache[key] # Undefined /\ cache'[key] = Undefined) =>
                  RemovalStep(key) ]_vars

\* after destroy() the caller set an entry with a TTL of one second; two sweep periods
\* later no sweep is scheduled and the expired entry is still in the Map
C40_Witness ==
    /\ \E i \in 1..Len(calls) : calls[i] = "destroy"
    /\ SweepStopped
    /\ now = 2 * SweepInterval
    /\ \E key \in Keys :
          /\ lastWrite[key].op = "set" /\ lastWrite[key].ttl = Num(1)
          /\ PastExpiry(cache, key, now)

\* after destroy() an init() filled the store again, and no sweep is scheduled
RefilledAfterDestroy ==
    /\ calls = <<"init", "destroy", "init">>
    /\ call.name = "init" /\ call.pc = "done" /\ call.requests = 1
    /\ ReferenceDataCached(cache, lastWrite, "yalidine:wilayas")
    /\ SweepStopped

----------------------------------------------------------------------------
(* Properties of init() on a shared store: specification SpecShared *)

\* the pending get() of init() settles in this step
InitGetStep == call.name = "init" /\ call.pc = "get" /\ call'.pc # "get"

\* the reference-data request of init() settles in this step
InitRequestStep == call.name = "init" /\ call.pc = "request" /\ call'.pc # "request"

\* the entry init() stores at `time` for the payload `data`
ReferenceEntry(data, time) == CacheEntry(data, Num(time + WilayasTTL * MsPerSecond))

\* what init() does on the key of its own agent when it holds an unexpired value and
\* when it holds none, and on the other keys
InitOnKey(held) ==
    /\ (InitGetStep /\ held) =>
          /\ call'.pc = "done" /\ call'.requests = 0
          /\ pc' = pc /\ fetchCount' = fetchCount
          /\ cache' = cache /\ lastWrite' = lastWrite
    /\ (InitGetStep /\ ~held) =>
          /\ call'.pc = "request" /\ call'.requests = 1
          /\ pc' = "fetching"
    /\ InitRequestStep =>
          IF result.state = "resolved"
          THEN cache'[wilayasCacheKey] = ReferenceEntry(result.data, now)
          ELSE cache' = cache
    /\ (call'.name = "init" /\ call' # call) =>
          /\ call'.requests <= 1
          /\ \A key \in Keys \ {wilayasCacheKey} :
                cache'[key] = cache[key] /\ lastWrite'[key] = lastWrite[key]

\* C31: init() reads and writes only the key <agent>:wilayas of its own agent: when the
\* key holds no unexpired value it issues one reference-data request and on success
\* stores the payload under that key with a TTL of 24 hours; when the key holds an
\* unexpired value it issues no request and leaves the entry unchanged; sessions of
\* different agents on one store leave each other's entry alone.
C31_InitUsesOnlyItsOwnKey ==
    [][ InitOnKey(hasValue(cache, wilayasCacheKey, now)) ]_vars

\* the same with "holds a value" read as: get() returns a value that is not falsy
InitUsesOnlyItsOwnKeyWhenTruthy ==
    [][ InitOnKey(Truthy(getValue(cache, wilayasCacheKey, now))) ]_vars

\* a session finds the null payload an earlier session of its agent cached, and sends
\* the reference-data request again
NullPayloadIsFetchedAgain ==
    /\ call.name = "init" /\ call.pc = "request"
    /\ hasValue(cache, wilayasCacheKey, now)
    /\ cache[wilayasCacheKey].value = Null

\* a session of the other agent was initialized on the store and both entries are there
BothAgentsCached ==
    /\ call.name = "init" /\ call.pc = "done"
    /\ \A key \in Keys : ReferenceDataCached(cache, lastWrite, key)

----------------------------------------------------------------------------
(* Properties of overlapping calls of the session: specification SpecOverlap *)

\* the number of set() calls a call of the session made on the store
SetCalls(c) ==
    IF c.name = "init" THEN Cardinality({i \in 1..Len(c.dbCalls) : c.dbCalls[i] = "set"})
    ELSE 0

\* the number of reference-data requests a call of the session made
RequestCalls(c) == IF c.name = "init" THEN c.requests ELSE 0

\* the session was not destroyed so far
NeverDestroyed == \A i \in 1..Len(calls) : calls[i] # "destroy"

\* C32: when two init() calls on the same un-initialized session overlap, the
\* reference-data request and the cache write are performed at most once in total.
C32_OverlappingInitLoadsOnce ==
    NeverDestroyed =>
        /\ RequestCalls(call) + RequestCalls(suspended.call) <= 1
        /\ SetCalls(call) + SetCalls(suspended.call) <= 1

\* while the other flow makes no call, the init() calls of a session that was not
\* destroyed send one request and write the cache once
SequentialInitLoadsOnce ==
    (NeverDestroyed /\ suspended.call = NoCall) =>
        RequestCalls(call) <= 1 /\ SetCalls(call) <= 1

\* both init() calls have sent the reference-data request and written the cache
BothInitsLoaded ==
    /\ calls = <<"init", "init">>
    /\ call.name = "init" /\ call.pc = "done" /\ call.requests = 1
    /\ suspended.call.name = "init" /\ suspended.call.pc = "done"
    /\ suspended.call.requests = 1
    /\ SetCalls(call) = 1 /\ SetCalls(suspended.call) = 1

\* the last call of the session that was started is destroy()
DestroyedLast == calls # <<>> /\ calls[Len(calls)] = "destroy"

\* C33: once destroy() has completed, the session is un-initialized and its in-memory
\* store is empty, and they stay so until a new init() or set is started: an init()
\* in flight when destroy() ran does not afterwards mark the session initialized or
\* write an entry into the destroyed store.
C33_DestroyedStaysDestroyed ==
    (DestroyedLast /\ database = MemoryDatabase) =>
        ~session.initialized /\ cache = EmptyCache

\* the init() that was in flight at destroy() has completed: the session is initialized
\* and the destroyed store holds the reference data
InitCompletedAfterDestroy ==
    /\ calls = <<"init", "destroy">>
    /\ session.initialized
    /\ ReferenceDataCached(cache, lastWrite, "yalidine:wilayas")
    /\ cleanupInterval = Null

====
